---- MODULE Spec2Model ----
(***************************************************************************)
(* A model of MemoLanes' lazy tile renderer (renderer/map_renderer.rs) and *)
(* of the journey aggregation behind it (merged_journey_builder.rs).       *)
(*                                                                         *)
(* A Tile is the set of its presence bits, a JourneyBitmap a function from *)
(* the occupied zoom-9 coordinates <<x, y>> to tiles.  Options and Results *)
(* are records: [some |-> ...] and [ok |-> ...].  Strings that the code    *)
(* formats or parses are sequences of one-character strings.               *)
(***************************************************************************)
EXTENDS Integers, Sequences, FiniteSets, TLC

(***************************************************************************)
(* Bounds of the model.                                                    *)
(***************************************************************************)
\* Number of presence bits of a tile.
NBits == 2
\* A behaviour holds at most this many version-bumping operations in a row
\* on one renderer (the version itself keeps its 64 bits).
MaxBumps == 2
\* SpecLazy requests at most this many frames of a lazy renderer.
MaxFrames == 2
\* SpecCache stores at most this many journeys.
MaxJourneys == 2
\* SpecFlight runs this many concurrent requests.
MaxRequests == 2
MaxCarry == 2
MaxNeeds == 2
MaxPoints == 2
MaxSegments == 3

(***************************************************************************)
(* Options and results.                                                    *)
(***************************************************************************)
None == [some |-> FALSE]
Some(v) == [some |-> TRUE, v |-> v]
Ok(v) == [ok |-> TRUE, v |-> v]
Err(e) == [ok |-> FALSE, err |-> e]

Pow2(n) == 2 ^ n

(***************************************************************************)
(* Tiles and bitmaps (journey_bitmap.rs is not part of the sources; spec   *)
(* section 3: a sparse mapping from (tile_x, tile_y) to a bit raster whose *)
(* merge is the logical OR of the presence bits).                          *)
(***************************************************************************)
Bits == 1 .. NBits

EmptyBitmap == [c \in {} |-> {}]

TileOr(bitmap, c) == IF c \in DOMAIN bitmap THEN bitmap[c] ELSE {}

\* Tile::merge_from
TileMergeFrom(existing, other) == existing \cup other

\* JourneyBitmap::merge
BitmapMerge(a, b) ==
    [c \in DOMAIN a \cup DOMAIN b |-> TileMergeFrom(TileOr(a, c), TileOr(b, c))]

\* One bit set in one tile, the tile created when it is absent.
BitmapSetBit(bitmap, c, b) ==
    [d \in DOMAIN bitmap \cup {c} |->
        IF d = c THEN TileOr(bitmap, c) \cup {b} ELSE bitmap[d]]

(***************************************************************************)
(* The serialized form of a bitmap (spec section 4.A; journey_data.rs is   *)
(* not part of the sources).  A blob is a sequence of numbers: magic,      *)
(* format version, tile count, then per tile x, y, offset and length of    *)
(* its payload, then the payloads.  The payload of a tile lists its set    *)
(* bits in increasing order.                                               *)
(***************************************************************************)
BLOB_MAGIC == 77
BLOB_VERSION == 1
HeaderLen(n) == 3 + 4 * n

CoordLess(a, b) == a[1] < b[1] \/ (a[1] = b[1] /\ a[2] < b[2])

RECURSIVE SortedCoords(_)
SortedCoords(S) ==
    IF S = {} THEN <<>>
    ELSE LET m == CHOOSE a \in S : \A b \in S \ {a} : CoordLess(a, b)
         IN  <<m>> \o SortedCoords(S \ {m})

RECURSIVE SortedBits(_)
SortedBits(S) ==
    IF S = {} THEN <<>>
    ELSE LET m == CHOOSE a \in S : \A b \in S : a <= b
         IN  <<m>> \o SortedBits(S \ {m})

serialize_tile(tile) == SortedBits(tile)

RECURSIVE SerializeFrom(_, _, _)
\* <<directory, payloads>> of the tiles keys[i..], the first payload at offset off.
SerializeFrom(bitmap, keys, off) ==
    IF keys = <<>> THEN << <<>>, <<>> >>
    ELSE LET c == Head(keys)
             p == serialize_tile(bitmap[c])
             rest == SerializeFrom(bitmap, Tail(keys), off + Len(p))
         IN  << <<c[1], c[2], off, Len(p)>> \o rest[1], p \o rest[2] >>

serialize_journey_bitmap(bitmap) ==
    LET keys == SortedCoords(DOMAIN bitmap)
        body == SerializeFrom(bitmap, keys, HeaderLen(Len(keys)))
    IN  <<BLOB_MAGIC, BLOB_VERSION, Len(keys)>> \o body[1] \o body[2]

\* The directory only: no payload is read.
parse_tile_index(raw) ==
    IF Len(raw) < 3 \/ raw[1] # BLOB_MAGIC \/ raw[2] # BLOB_VERSION
        THEN Err("MalformedBlob")
    ELSE IF Len(raw) < HeaderLen(raw[3]) THEN Err("MalformedBlob")
    ELSE LET n == raw[3]
             entry(i) == [x |-> raw[3 + 4 * (i - 1) + 1], y |-> raw[3 + 4 * (i - 1) + 2],
                          offset |-> raw[3 + 4 * (i - 1) + 3],
                          length |-> raw[3 + 4 * (i - 1) + 4]]
             keys == {<<entry(i).x, entry(i).y>> : i \in 1 .. n}
         IN  IF \E i \in 1 .. n : entry(i).offset + entry(i).length > Len(raw)
                 THEN Err("MalformedBlob")
             ELSE Ok([c \in keys |->
                        LET i == CHOOSE j \in 1 .. n : <<entry(j).x, entry(j).y>> = c
                        IN  [offset |-> entry(i).offset, length |-> entry(i).length]])

\* offset is 0-based as in the code; sequences are 1-based.
Slice(raw, offset, length) == SubSeq(raw, offset + 1, offset + length)

deserialize_tile(payload) ==
    IF /\ \A i \in 1 .. Len(payload) : payload[i] \in Bits
       /\ \A i \in 1 .. Len(payload) - 1 : payload[i] < payload[i + 1]
        THEN Ok({payload[i] : i \in 1 .. Len(payload)})
    ELSE Err("TileDecompressionFailed")

deserialize_journey_bitmap(raw) ==
    LET idx == parse_tile_index(raw)
    IN  IF ~idx.ok THEN idx
        ELSE LET tile(c) == deserialize_tile(Slice(raw, idx.v[c].offset, idx.v[c].length))
             IN  IF \E c \in DOMAIN idx.v : ~tile(c).ok THEN Err("TileDecompressionFailed")
                 ELSE Ok([c \in DOMAIN idx.v |-> tile(c).v])

(***************************************************************************)
(* i64 values.  A viewport's x is any i64 and is never validated, so it    *)
(* keeps its 64 bits: a value is top * 2^60 + mid * 2^30 + low, with top   *)
(* in -8 .. 7 and mid, low in 0 .. 2^30 - 1 (two's complement).  y, width, *)
(* height and z are plain integers: the model draws them from values far   *)
(* from the ends of their types.                                           *)
(***************************************************************************)
Limb == 2 ^ 30

I64(n) ==
    IF n >= 0 THEN [top |-> 0, mid |-> 0, low |-> n]
    ELSE [top |-> -1, mid |-> Limb - 1, low |-> Limb + n]

I64_MAX == [top |-> 7, mid |-> Limb - 1, low |-> Limb - 1]

\* 2^62
I64_BIG == [top |-> 4, mid |-> 0, low |-> 0]

WrapTop(t) == ((t + 8) % 16) - 8

\* x + d for 0 <= d < 2^30: the wrapped sum and whether it overflowed.
I64Add(x, d) ==
    LET l == x.low + d
        m == x.mid + (l \div Limb)
        t == x.top + (m \div Limb)
    IN  [v |-> [top |-> WrapTop(t), mid |-> m % Limb, low |-> l % Limb],
         overflow |-> t > 7]

\* x * 2^s for 0 <= s < 30: the wrapped product and whether it overflowed.
I64Shl(x, s) ==
    LET cut == Pow2(30 - s)
        l == (x.low % cut) * Pow2(s)
        m == (x.mid % cut) * Pow2(s) + (x.low \div cut)
        t == x.top * Pow2(s) + (x.mid \div cut)
    IN  [v |-> [top |-> WrapTop(t), mid |-> m, low |-> l],
         overflow |-> t > 7 \/ t < -8]

\* ((x >> d) % 512 + 512) % 512 and ((x % m) + m) % m for a power of two
\* m <= 2^30: the Euclidean remainder reads the low limb only.
I64ShrMod(x, d, m) == (x.low \div Pow2(d)) % m
I64Mod(x, m) == x.low % m

(***************************************************************************)
(* The version: a u64, held as its 16 hexadecimal digits, most significant *)
(* first.                                                                  *)
(***************************************************************************)
VERSION_DIGITS == 16

VersionZero == [i \in 1 .. VERSION_DIGITS |-> 0]

\* Mutant: u64::saturating_add(1).
WrappingInc_saturating(v) ==
    LET below == {i \in 1 .. VERSION_DIGITS : v[i] < 15}
    IN  IF below = {} THEN v
        ELSE LET k == CHOOSE i \in below : \A j \in below : j <= i
             IN  [i \in 1 .. VERSION_DIGITS |->
                    IF i < k THEN v[i] ELSE IF i = k THEN v[k] + 1 ELSE 0]

\* u64::wrapping_add(1)
WrappingInc(v) ==
    LET below == {i \in 1 .. VERSION_DIGITS : v[i] < 15}
    IN  IF below = {} THEN VersionZero
        ELSE LET k == CHOOSE i \in below : \A j \in below : j <= i
             IN  [i \in 1 .. VERSION_DIGITS |->
                    IF i < k THEN v[i] ELSE IF i = k THEN v[k] + 1 ELSE 0]

HexChars == <<"0", "1", "2", "3", "4", "5", "6", "7",
              "8", "9", "a", "b", "c", "d", "e", "f">>
HexUpper == <<"0", "1", "2", "3", "4", "5", "6", "7",
              "8", "9", "A", "B", "C", "D", "E", "F">>

RECURSIVE StripLeading(_, _)
StripLeading(s, ch) ==
    IF s # <<>> /\ Head(s) = ch THEN StripLeading(Tail(s), ch) ELSE s

RECURSIVE StripTrailing(_, _)
StripTrailing(s, ch) ==
    IF s # <<>> /\ s[Len(s)] = ch THEN StripTrailing(SubSeq(s, 1, Len(s) - 1), ch) ELSE s

\* format!("{:x}", u64)
FormatHex(v) ==
    LET sig == StripLeading(v, 0)
    IN  IF sig = <<>> THEN <<"0">> ELSE [i \in 1 .. Len(sig) |-> HexChars[sig[i] + 1]]

\* char::to_digit(16)
HexDigit(ch) ==
    IF \E n \in 1 .. 16 : HexChars[n] = ch
        THEN Some((CHOOSE n \in 1 .. 16 : HexChars[n] = ch) - 1)
    ELSE IF \E n \in 1 .. 16 : HexUpper[n] = ch
        THEN Some((CHOOSE n \in 1 .. 16 : HexUpper[n] = ch) - 1)
    ELSE None

\* u64::from_str_radix(s, 16).ok(): an optional leading "+", then one or more
\* hexadecimal digits of either case; None on an empty string, a character
\* that is no digit, or a value above u64::MAX.
FromStrRadix16(s) ==
    LET body == IF s # <<>> /\ Head(s) = "+" THEN Tail(s) ELSE s
    IN  IF body = <<>> THEN None
        ELSE IF \E i \in 1 .. Len(body) : ~HexDigit(body[i]).some THEN None
        ELSE LET digits == [i \in 1 .. Len(body) |-> HexDigit(body[i]).v]
                 sig == StripLeading(digits, 0)
             IN  IF Len(sig) > VERSION_DIGITS THEN None
                 ELSE Some([i \in 1 .. VERSION_DIGITS |->
                              IF i <= VERSION_DIGITS - Len(sig) THEN 0
                              ELSE sig[i - (VERSION_DIGITS - Len(sig))]])

Quote == "\""

\* Mutant: the surrounding double quotes are not removed.
parse_version_string_untrimmed(version_str) == FromStrRadix16(version_str)

parse_version_string(version_str) ==
    LET cleaned == StripTrailing(StripLeading(version_str, Quote), Quote)
    IN  FromStrRadix16(cleaned)

(***************************************************************************)
(* LazyTileSource                                                          *)
(***************************************************************************)
TILE_ZOOM == 9

from_serialized_bitmap(raw_data) ==
    LET tile_index == parse_tile_index(raw_data)
    IN  IF ~tile_index.ok THEN tile_index
        ELSE Ok([raw_data |-> raw_data, tile_index |-> tile_index.v])

\* deserialize_tile(..).ok(): a payload that fails to decompress gives None,
\* as a coordinate the index does not hold.
decompress_tile(lazy, x, y) ==
    IF <<x, y>> \notin DOMAIN lazy.tile_index THEN None
    ELSE LET loc == lazy.tile_index[<<x, y>>]
             tile == deserialize_tile(Slice(lazy.raw_data, loc.offset, loc.length))
         IN  IF tile.ok THEN Some(tile.v) ELSE None

tile_keys(lazy) == DOMAIN lazy.tile_index

(***************************************************************************)
(* MapRenderer: a renderer is the record of its fields.                    *)
(***************************************************************************)
\* "just a place holder for future implementation"
prepare_tiles_for_rendering(tile) == tile

prepare_journey_bitmap_for_rendering(journey_bitmap) ==
    [c \in DOMAIN journey_bitmap |-> prepare_tiles_for_rendering(journey_bitmap[c])]

new(journey_bitmap) ==
    [journey_bitmap  |-> prepare_journey_bitmap_for_rendering(journey_bitmap),
     lazy_source     |-> None,
     loaded_tiles    |-> {},
     tile_area_cache |-> [c \in {} |-> 0],
     version         |-> VersionZero,
     current_area    |-> None]

reset(r) == [r EXCEPT !.version = WrappingInc(@), !.current_area = None]

\* The closure given to update: it sets bit f.bit of tile f.pos and reports
\* the tile as changed when f.reports.
ApplyMutator(f, journey_bitmap) ==
    [journey_bitmap |-> BitmapSetBit(journey_bitmap, f.pos, f.bit),
     changed_tiles  |-> IF f.reports THEN <<f.pos>> ELSE <<>>]

RemoveKeys(cache, keys) == [c \in DOMAIN cache \ keys |-> cache[c]]

\* Mutant: the areas memoized for the changed tiles are kept.
update_keeps_tile_area_cache(r, f) ==
    reset([r EXCEPT !.journey_bitmap = ApplyMutator(f, r.journey_bitmap).journey_bitmap])

update(r, f) ==
    LET applied == ApplyMutator(f, r.journey_bitmap)
        changed == {applied.changed_tiles[i] : i \in 1 .. Len(applied.changed_tiles)}
        prepared == [c \in DOMAIN applied.journey_bitmap |->
                       IF c \in changed
                           THEN prepare_tiles_for_rendering(applied.journey_bitmap[c])
                       ELSE applied.journey_bitmap[c]]
    IN  reset([r EXCEPT !.journey_bitmap = prepared,
                        !.tile_area_cache = RemoveKeys(@, changed)])

replace(r, journey_bitmap) ==
    reset([r EXCEPT !.journey_bitmap = prepare_journey_bitmap_for_rendering(journey_bitmap),
                    !.lazy_source = None,
                    !.loaded_tiles = {},
                    !.tile_area_cache = [c \in {} |-> 0]])

\* Mutant: the tiles of the source are merged into the working bitmap at once.
replace_lazy_eager(r, lazy_source, ongoing_bitmap) ==
    LET finalized == deserialize_journey_bitmap(lazy_source.raw_data)
    IN  reset([r EXCEPT !.journey_bitmap =
                            BitmapMerge(prepare_journey_bitmap_for_rendering(ongoing_bitmap),
                                        IF finalized.ok THEN finalized.v ELSE EmptyBitmap),
                        !.lazy_source = Some(lazy_source),
                        !.loaded_tiles = {},
                        !.tile_area_cache = [c \in {} |-> 0]])

replace_lazy(r, lazy_source, ongoing_bitmap) ==
    reset([r EXCEPT !.journey_bitmap = prepare_journey_bitmap_for_rendering(ongoing_bitmap),
                    !.lazy_source = Some(lazy_source),
                    !.loaded_tiles = {},
                    !.tile_area_cache = [c \in {} |-> 0]])

\* Mutant: the record of loaded tiles is cleared and the source is kept.
drop_lazy_source_keeps_source(r) == [r EXCEPT !.loaded_tiles = {}]

drop_lazy_source(r) == [r EXCEPT !.lazy_source = None, !.loaded_tiles = {}]

get_current_version(r) == r.version

get_version_string(r) == FormatHex(r.version)

has_changed_since(r, client_version) ==
    IF client_version.some /\ parse_version_string(client_version.v) = Some(r.version)
        THEN None
    ELSE Some(get_version_string(r))

peek_latest_bitmap(r) == r.journey_bitmap

\* Mutant: the tile of the source takes the place of the tile that is there.
ensure_tile_loaded_overwrites(r, x, y) ==
    IF <<x, y>> \in r.loaded_tiles THEN r
    ELSE LET marked == [r EXCEPT !.loaded_tiles = @ \cup {<<x, y>>}]
         IN  IF ~r.lazy_source.some THEN marked
             ELSE LET finalized_tile == decompress_tile(r.lazy_source.v, x, y)
                  IN  IF ~finalized_tile.some THEN marked
                      ELSE [marked EXCEPT !.journey_bitmap =
                              [c \in DOMAIN @ \cup {<<x, y>>} |->
                                 IF c = <<x, y>> THEN finalized_tile.v ELSE @[c]]]

\* Mutant: a coordinate is marked as loaded only when the source has it.
ensure_tile_loaded_marks_found(r, x, y) ==
    IF <<x, y>> \in r.loaded_tiles THEN r
    ELSE IF ~r.lazy_source.some THEN [r EXCEPT !.loaded_tiles = @ \cup {<<x, y>>}]
    ELSE LET finalized_tile == decompress_tile(r.lazy_source.v, x, y)
         IN  IF ~finalized_tile.some THEN r
             ELSE [r EXCEPT !.loaded_tiles = @ \cup {<<x, y>>},
                            !.journey_bitmap =
                                [c \in DOMAIN @ \cup {<<x, y>>} |->
                                   IF c = <<x, y>>
                                       THEN TileMergeFrom(TileOr(@, c), finalized_tile.v)
                                   ELSE @[c]]]

\* Mutant: materializing a tile counts as a change of the content.
ensure_tile_loaded_bumps(r, x, y) ==
    IF <<x, y>> \in r.loaded_tiles THEN r
    ELSE LET marked == [r EXCEPT !.loaded_tiles = @ \cup {<<x, y>>}]
         IN  IF ~r.lazy_source.some THEN marked
             ELSE LET finalized_tile == decompress_tile(r.lazy_source.v, x, y)
                  IN  IF ~finalized_tile.some THEN marked
                      ELSE reset([marked EXCEPT !.journey_bitmap =
                                    [c \in DOMAIN @ \cup {<<x, y>>} |->
                                       IF c = <<x, y>>
                                           THEN TileMergeFrom(TileOr(@, c), finalized_tile.v)
                                       ELSE @[c]]])

ensure_tile_loaded(r, x, y) ==
    IF <<x, y>> \in r.loaded_tiles THEN r
    ELSE LET marked == [r EXCEPT !.loaded_tiles = @ \cup {<<x, y>>}]
         IN  IF ~r.lazy_source.some THEN marked
             ELSE LET finalized_tile == decompress_tile(r.lazy_source.v, x, y)
                  IN  IF ~finalized_tile.some THEN marked
                      ELSE LET tile == prepare_tiles_for_rendering(finalized_tile.v)
                           IN  [marked EXCEPT !.journey_bitmap =
                                  IF <<x, y>> \in DOMAIN @
                                      THEN [@ EXCEPT ![<<x, y>>] = TileMergeFrom(@, tile)]
                                  ELSE [c \in DOMAIN @ \cup {<<x, y>>} |->
                                          IF c = <<x, y>> THEN tile ELSE @[c]]]

RECURSIVE EnsureTiles(_, _)
\* for (x, y) in keys { self.ensure_tile_loaded(x, y) }
EnsureTiles(r, keys) ==
    IF keys = <<>> THEN r
    ELSE EnsureTiles(ensure_tile_loaded(r, Head(keys)[1], Head(keys)[2]), Tail(keys))

\* Mutant: only the first tile of the source is materialized.
ensure_all_tiles_loaded_first(r) ==
    IF r.lazy_source.some
        THEN LET keys == SortedCoords(tile_keys(r.lazy_source.v))
             IN  EnsureTiles(r, IF keys = <<>> THEN keys ELSE <<Head(keys)>>)
    ELSE r

ensure_all_tiles_loaded(r) ==
    IF r.lazy_source.some
        THEN EnsureTiles(r, SortedCoords(tile_keys(r.lazy_source.v)))
    ELSE r

(***************************************************************************)
(* The footprint area (journey_area_utils.rs is not part of the sources;   *)
(* spec section 4.E: memoized per tile through tile_area_cache).  The area *)
(* of a tile is the number of its bits.                                    *)
(***************************************************************************)
TileArea(tile) == Cardinality(tile)

RECURSIVE SumOver(_, _)
SumOver(f, S) ==
    IF S = {} THEN 0
    ELSE LET c == CHOOSE d \in S : TRUE IN f[c] + SumOver(f, S \ {c})

\* The cache after the computation, and the area: a tile the cache holds is
\* not measured again.
compute_journey_bitmap_area(journey_bitmap, tile_area_cache) ==
    LET cache == [c \in DOMAIN tile_area_cache \cup DOMAIN journey_bitmap |->
                    IF c \in DOMAIN tile_area_cache THEN tile_area_cache[c]
                    ELSE TileArea(journey_bitmap[c])]
    IN  [tile_area_cache |-> cache, area |-> SumOver(cache, DOMAIN journey_bitmap)]

get_current_area(r) ==
    LET loaded == ensure_all_tiles_loaded(r)
    IN  IF loaded.current_area.some THEN [r |-> loaded, ret |-> loaded.current_area.v]
        ELSE LET computed == compute_journey_bitmap_area(loaded.journey_bitmap,
                                                         loaded.tile_area_cache)
             IN  [r |-> [loaded EXCEPT !.current_area = Some(computed.area),
                                       !.tile_area_cache = computed.tile_area_cache],
                  ret |-> computed.area]

(***************************************************************************)
(* compute_needed_bitmap_tiles.  checks is the build's overflow-checks     *)
(* setting: with it an i64 overflow panics, without it the value wraps.    *)
(***************************************************************************)
MAP_WIDTH == 2 ^ 9

Panic == [ok |-> FALSE, panic |-> TRUE]

\* The tiles one view tile (x + dx, y + dy) adds, and whether an overflow
\* occurred on the way.
NeededOfViewTile(x, y, z, dx, dy) ==
    LET zoom_diff == z - TILE_ZOOM
        view_x == I64Add(x, dx)
        view_y == y + dy
    IN  IF zoom_diff >= 0
            THEN LET bx_wrapped == I64ShrMod(view_x.v, zoom_diff, MAP_WIDTH)
                     by == view_y \div Pow2(zoom_diff)
                 IN  [overflow |-> view_x.overflow,
                      tiles |-> IF by >= 0 /\ by < MAP_WIDTH THEN {<<bx_wrapped, by>>} ELSE {}]
        ELSE LET scale == Pow2(-zoom_diff)
                 bx_start == I64Shl(view_x.v, -zoom_diff)
                 by_start == view_y * scale
                 bx_end == I64Add(bx_start.v, scale)
             IN  [overflow |-> view_x.overflow \/ bx_start.overflow \/ bx_end.overflow,
                  tiles |->
                    \* a wrapped end lies below the start: the range is empty
                    IF bx_end.overflow THEN {}
                    ELSE {<<I64Mod(I64Add(bx_start.v, j).v, MAP_WIDTH), bby>> :
                            j \in 0 .. scale - 1,
                            bby \in {b \in by_start .. by_start + scale - 1 :
                                        b >= 0 /\ b < MAP_WIDTH}}]

compute_needed_bitmap_tiles(x, y, z, width, height, checks) ==
    LET cells == {<<dx, dy>> : dx \in 0 .. width - 1, dy \in 0 .. height - 1}
    IN  IF checks /\ \E c \in cells : NeededOfViewTile(x, y, z, c[1], c[2]).overflow
            THEN Panic
        ELSE [panic |-> FALSE,
              tiles |-> UNION {NeededOfViewTile(x, y, z, c[1], c[2]).tiles : c \in cells}]

(***************************************************************************)
(* TileShader2::get_pixels_coordinates (tile_shader2.rs is not part of the *)
(* sources; spec section 6: the pixels to light in view tile (tile_x,      *)
(* tile_y) at zoom z, from the bitmap tiles the view tile covers).  A bit  *)
(* b of the bitmap tile at offset (ox, oy) of the covered block lights one *)
(* pixel.                                                                  *)
(***************************************************************************)
RECURSIVE PixelsOf(_, _, _, _)
PixelsOf(journey_bitmap, cells, side, size) ==
    IF cells = <<>> THEN <<>>
    ELSE LET cell == Head(cells)
             bits == SortedBits(TileOr(journey_bitmap, cell.pos))
         IN  [i \in 1 .. Len(bits) |->
                <<(cell.ox * size + ((bits[i] - 1) * size) \div NBits) \div side,
                  (cell.oy * size) \div side>>]
             \o PixelsOf(journey_bitmap, Tail(cells), side, size)

get_pixels_coordinates(journey_bitmap, tile_x, tile_y, z, buffer_size_power) ==
    LET zoom_diff == z - TILE_ZOOM
        size == Pow2(buffer_size_power)
    IN  IF zoom_diff >= 0
            THEN PixelsOf(journey_bitmap,
                          <<[pos |-> <<tile_x \div Pow2(zoom_diff), tile_y \div Pow2(zoom_diff)>>,
                             ox |-> 0, oy |-> 0]>>, 1, size)
        ELSE LET side == Pow2(-zoom_diff)
                 cells == [k \in 1 .. side * side |->
                             LET ox == (k - 1) % side
                                 oy == (k - 1) \div side
                             IN  [pos |-> <<tile_x * side + ox, tile_y * side + oy>>,
                                  ox |-> ox, oy |-> oy]]
             IN  PixelsOf(journey_bitmap, cells, side, size)

(***************************************************************************)
(* tile_buffer_from_journey_bitmap                                         *)
(***************************************************************************)
\* TileBuffer::calculate_tile_index (journey_kernel is not part of the
\* sources): row-major position of view tile (x + i, y + j).
calculate_tile_index(buffer, i, j) == j * buffer.width + i

SelectInRange(pixels, size) ==
    SelectSeq(pixels, LAMBDA p : p[1] >= 0 /\ p[1] < size /\ p[2] >= 0 /\ p[2] < size)

RECURSIVE ShadeTiles(_, _, _)
\* The loop over the view tiles: cells lists <<i, j>> for tile_x = x + i and
\* tile_y = y + j in the order of the loops.
ShadeTiles(journey_bitmap, buffer, cells) ==
    IF cells = <<>> THEN Ok(buffer)
    ELSE LET i == Head(cells)[1]
             j == Head(cells)[2]
             zoom_coefficient == Pow2(buffer.z)
             tile_x_rounded == I64Mod(I64Add(buffer.x, i).v, zoom_coefficient)
             pixels == get_pixels_coordinates(journey_bitmap, tile_x_rounded, buffer.y + j,
                                              buffer.z, buffer.buffer_size_power)
             idx == calculate_tile_index(buffer, i, j)
         IN  IF idx >= Len(buffer.tile_data) THEN Err("Index out of bounds")
             ELSE ShadeTiles(journey_bitmap,
                             [buffer EXCEPT !.tile_data[idx + 1] =
                                @ \o SelectInRange(pixels, Pow2(buffer.buffer_size_power))],
                             Tail(cells))

tile_buffer_from_journey_bitmap(journey_bitmap, x, y, z, width, height, buffer_size_power, checks) ==
    IF width <= 0 \/ height <= 0 THEN Err("Invalid dimensions")
    ELSE IF width > 20 \/ height > 20 THEN Err("Dimensions too large")
    ELSE IF ~(z \in 0 .. 25) THEN Err("Invalid zoom level")
    ELSE IF ~(buffer_size_power \in 6 .. 11) THEN Err("Invalid buffer_size_power")
    ELSE IF y < 0 \/ y >= Pow2(z) THEN Err("Invalid y coordinate")
    ELSE LET buffer == [x |-> x, y |-> y, z |-> z, width |-> width, height |-> height,
                        buffer_size_power |-> buffer_size_power,
                        tile_data |-> [k \in 1 .. width * height |-> <<>>]]
             x_end == I64Add(x, width)
             \* x .. (x + width): empty when the end has wrapped below x
             cells == IF x_end.overflow THEN <<>>
                      ELSE [k \in 1 .. width * height |->
                              <<(k - 1) % width, (k - 1) \div width>>]
         IN  IF checks /\ x_end.overflow THEN Panic
             ELSE ShadeTiles(journey_bitmap, buffer, cells)

\* Mutant: a frame materializes the whole source.
get_tile_buffer_loads_all(r, x, y, z, width, height, buffer_size_power, checks) ==
    LET loaded == ensure_all_tiles_loaded(r)
    IN  [r |-> loaded,
         ret |-> tile_buffer_from_journey_bitmap(loaded.journey_bitmap, x, y, z,
                     width, height, buffer_size_power, checks)]

get_tile_buffer(r, x, y, z, width, height, buffer_size_power, checks) ==
    LET needed == IF r.lazy_source.some
                      THEN compute_needed_bitmap_tiles(x, y, z, width, height, checks)
                  ELSE [panic |-> FALSE, tiles |-> {}]
    IN  IF needed.panic THEN [r |-> r, ret |-> Panic]
        ELSE LET loaded == EnsureTiles(r, SortedCoords(needed.tiles))
             IN  [r |-> loaded,
                  ret |-> tile_buffer_from_journey_bitmap(loaded.journey_bitmap, x, y, z,
                              width, height, buffer_size_power, checks)]

(***************************************************************************)
(* Inputs.                                                                 *)
(***************************************************************************)
Tiles == (SUBSET Bits) \ {{}}

BitmapsOver(coords, tiles) == UNION {[D -> tiles] : D \in SUBSET coords}

\* Two tiles that viewports at x = -1 and x = 0 show, and one that no
\* modelled viewport shows.
NearTile == <<511, 0>>
OriginTile == <<0, 0>>
FarTile == <<5, 5>>

\* The blob with the payload of tile c damaged, its directory intact.
CorruptPayload(raw, c) ==
    LET loc == parse_tile_index(raw).v[c]
    IN  IF loc.length = 0 THEN raw ELSE [raw EXCEPT ![loc.offset + 1] = 0]

\* The closures given to update: each sets one bit of one tile.
Mutators == [pos : {NearTile, FarTile}, bit : {1}, reports : BOOLEAN]

ClientStrings(r) ==
    LET hex == get_version_string(r)
    IN  {hex, <<Quote>> \o hex \o <<Quote>>, <<"0">> \o hex, <<"+">> \o hex,
         <<"1">>, <<>>, <<Quote>>, <<"-", "1">>, <<"0", "x", "1">>,
         [i \in 1 .. VERSION_DIGITS + 1 |-> "f"]}

ClientVersions(r) == {None} \cup {Some(str) : str \in ClientStrings(r)}

\* The cap on the version-bumping operations of a behaviour.
CanBump(r) ==
    /\ \A i \in 1 .. VERSION_DIGITS - 1 : r.version[i] = 0
    /\ r.version[VERSION_DIGITS] < MaxBumps

(***************************************************************************)
(* The renderer as a state machine: one action per operation of            *)
(* MapRenderer.  mr is the renderer, call the operation last performed on  *)
(* it with its arguments, ret what that operation returned, and            *)
(* overflow_checks the build's setting.  ref is a second renderer, built   *)
(* eagerly from source_bitmap, that SpecLazy drives side by side with mr;  *)
(* frames counts the get_tile_buffer calls of SpecLazy.                    *)
(***************************************************************************)
VARIABLES mr, overflow_checks, call, ret, ref, ref_ret, source_bitmap, frames,
          main_db, cache_db, ongoing_journey, requests, computes, lookups

vars == <<mr, overflow_checks, call, ret, ref, ref_ret, source_bitmap, frames,
          main_db, cache_db, ongoing_journey, requests, computes, lookups>>

Unit == [unit |-> TRUE]

refVars == <<ref, ref_ret, source_bitmap, frames>>

\* The journey store with its ongoing journey, the layer cache, the
\* requests in progress and the number of runs of each layer's closure.
dbVars == <<main_db, cache_db, ongoing_journey, requests, computes>>

\* lookups counts, for each tile coordinate, the calls of ensure_tile_loaded
\* and those of them that went to the lazy source, since the renderer was
\* last given a source or lost it (SpecNegative keeps it).
NoLookups == [c \in {} |-> [needed |-> 0, decompressed |-> 0]]

\* No request is in progress.
NoRequests == requests = <<>> /\ computes = <<>>

New(bitmaps) ==
    \E b \in bitmaps :
        /\ mr' = new(b)
        /\ call' = [op |-> "new", bitmap |-> b]
        /\ ret' = Unit
        /\ UNCHANGED <<overflow_checks, refVars, dbVars, lookups>>

Update ==
    \E f \in Mutators :
        /\ CanBump(mr)
        /\ mr' = update(mr, f)
        /\ call' = [op |-> "update", f |-> f]
        /\ ret' = Unit
        /\ UNCHANGED <<overflow_checks, refVars, dbVars, lookups>>

Replace(bitmaps) ==
    \E b \in bitmaps :
        /\ CanBump(mr)
        /\ mr' = replace(mr, b)
        /\ call' = [op |-> "replace", bitmap |-> b]
        /\ ret' = Unit
        /\ UNCHANGED <<overflow_checks, refVars, dbVars, lookups>>

ReplaceLazy(blobs, ongoings) ==
    \E raw \in blobs, ongoing \in ongoings :
        /\ CanBump(mr)
        /\ from_serialized_bitmap(raw).ok
        /\ mr' = replace_lazy(mr, from_serialized_bitmap(raw).v, ongoing)
        /\ call' = [op |-> "replace_lazy", raw |-> raw, ongoing |-> ongoing]
        /\ ret' = Unit
        /\ UNCHANGED <<overflow_checks, refVars, dbVars, lookups>>

DropLazySource ==
    /\ mr' = drop_lazy_source(mr)
    /\ call' = [op |-> "drop_lazy_source"]
    /\ ret' = Unit
    /\ UNCHANGED <<overflow_checks, refVars, dbVars, lookups>>

GetVersionString ==
    /\ call' = [op |-> "get_version_string"]
    /\ ret' = get_version_string(mr)
    /\ UNCHANGED <<mr, overflow_checks, refVars, dbVars, lookups>>

HasChangedSince ==
    \E client_version \in ClientVersions(mr) :
        /\ call' = [op |-> "has_changed_since", client_version |-> client_version]
        /\ ret' = has_changed_since(mr, client_version)
        /\ UNCHANGED <<mr, overflow_checks, refVars, dbVars, lookups>>

PeekLatestBitmap ==
    /\ call' = [op |-> "peek_latest_bitmap"]
    /\ ret' = peek_latest_bitmap(mr)
    /\ UNCHANGED <<mr, overflow_checks, refVars, dbVars, lookups>>

GetCurrentArea ==
    /\ mr' = get_current_area(mr).r
    /\ call' = [op |-> "get_current_area"]
    /\ ret' = get_current_area(mr).ret
    /\ UNCHANGED <<overflow_checks, refVars, dbVars, lookups>>

EnsureAllTilesLoaded ==
    /\ mr' = ensure_all_tiles_loaded(mr)
    /\ call' = [op |-> "ensure_all_tiles_loaded"]
    /\ ret' = Unit
    /\ UNCHANGED <<overflow_checks, refVars, dbVars, lookups>>

GetTileBuffer(viewports) ==
    \E v \in viewports :
        LET res == get_tile_buffer(mr, v.x, v.y, v.z, v.width, v.height,
                                   v.buffer_size_power, overflow_checks)
        IN  /\ mr' = res.r
            /\ call' = [op |-> "get_tile_buffer", v |-> v]
            /\ ret' = res.ret
            /\ UNCHANGED <<overflow_checks, refVars, dbVars, lookups>>

(***************************************************************************)
(* Spec: every operation of one renderer.                                  *)
(***************************************************************************)
SpecBitmaps == {EmptyBitmap, [c \in {NearTile} |-> {1}]}
SpecSource == [c \in {NearTile, FarTile} |-> {NBits}]
SpecBlobs ==
    {serialize_journey_bitmap(SpecSource),
     CorruptPayload(serialize_journey_bitmap(SpecSource), NearTile)}
SpecOngoings == {EmptyBitmap, [c \in {NearTile} |-> {1}]}
SpecViewports ==
    [x : {I64(-1), I64_MAX}, y : {0}, z : {9}, width : {1, 2}, height : {1},
     buffer_size_power : {5, 9}]

Init ==
    /\ \E b \in SpecBitmaps : mr = new(b) /\ call = [op |-> "new", bitmap |-> b]
    /\ overflow_checks \in BOOLEAN
    /\ ret = Unit
    /\ ref = new(EmptyBitmap)
    /\ ref_ret = Unit
    /\ source_bitmap = EmptyBitmap
    /\ frames = 0
    /\ lookups = NoLookups
    /\ main_db = <<>>
    /\ cache_db = [k \in {} |-> <<>>]
    /\ ongoing_journey = None
    /\ NoRequests

Next ==
    \/ New(SpecBitmaps)
    \/ Update
    \/ Replace(SpecBitmaps)
    \/ ReplaceLazy(SpecBlobs, SpecOngoings)
    \/ DropLazySource
    \/ GetVersionString
    \/ HasChangedSince
    \/ PeekLatestBitmap
    \/ GetCurrentArea
    \/ EnsureAllTilesLoaded
    \/ GetTileBuffer(SpecViewports)

Spec == Init /\ [][Next]_vars

(***************************************************************************)
(* Claims checked under Spec.                                              *)
(***************************************************************************)
BumpingOps == {"replace", "replace_lazy", "update"}
ReadingOps == {"get_tile_buffer", "ensure_all_tiles_loaded", "get_current_area",
               "drop_lazy_source", "peek_latest_bitmap", "has_changed_since",
               "get_version_string"}

VersionOne == WrappingInc(VersionZero)

\* C1 as stated: the version changes in a step exactly when the step is one
\* of new, replace, replace_lazy and update.
C1_VersionChangesOnNewToo ==
    [][(mr'.version # mr.version)
          <=> call'.op \in BumpingOps \cup {"new"}]_vars

\* C1, amended: replace, replace_lazy and update each move the version to its
\* successor modulo 2^64, which differs from it; new gives version 0 whatever
\* the version of the renderer it replaces; get_tile_buffer (with the lazy
\* tile materialization in it), ensure_all_tiles_loaded, get_current_area,
\* drop_lazy_source, peek_latest_bitmap, has_changed_since and
\* get_version_string leave the version as it is.
C1_VersionChanges ==
    [][/\ call'.op \in BumpingOps =>
            mr'.version = WrappingInc(mr.version) /\ mr'.version # mr.version
       /\ call'.op = "new" => mr'.version = VersionZero
       /\ call'.op \in ReadingOps => mr'.version = mr.version]_vars

\* A frame has materialized the near tile from the lazy source and the
\* version is still the one replace_lazy left.
C1_Witness ==
    /\ call.op = "get_tile_buffer"
    /\ ret.ok
    /\ mr.lazy_source.some
    /\ NearTile \in mr.loaded_tiles
    /\ NearTile \in DOMAIN mr.journey_bitmap
    /\ mr.version = VersionOne

Quoted(str) == <<Quote>> \o str \o <<Quote>>

\* C2: has_changed_since of the current version string, bare or in double
\* quotes, is None; of a missing or unparseable client version it is
\* Some(current hex); and right after replace, replace_lazy or update,
\* has_changed_since of the version string taken before the operation is
\* Some(current hex).
C2_Revalidation ==
    /\ [](call.op = "has_changed_since" =>
            LET cv == call.client_version
                hex == get_version_string(mr)
            IN  /\ (cv.some /\ cv.v \in {hex, Quoted(hex)}) => ret = None
                /\ (~cv.some \/ ~parse_version_string(cv.v).some) => ret = Some(hex))
    /\ [][call'.op \in BumpingOps =>
            /\ has_changed_since(mr', Some(get_version_string(mr)))
                  = Some(get_version_string(mr'))
            /\ has_changed_since(mr', Some(Quoted(get_version_string(mr))))
                  = Some(get_version_string(mr'))]_vars

\* The client sent the current version in double quotes, after two bumps,
\* and was told nothing changed.
C2_Witness ==
    /\ call.op = "has_changed_since"
    /\ call.client_version = Some(Quoted(<<"2">>))
    /\ mr.version = WrappingInc(VersionOne)
    /\ ret = None

\* C5 as stated: a get_tile_buffer call that returns an error leaves the
\* working bitmap and loaded_tiles as they were.
C5_ErrorTouchesNoTile ==
    [][(call'.op = "get_tile_buffer" /\ ~ret'.ok /\ "err" \in DOMAIN ret') =>
          /\ mr'.journey_bitmap = mr.journey_bitmap
          /\ mr'.loaded_tiles = mr.loaded_tiles]_vars

\* The tiles of a lazy source whose payload does not decompress.
FailingTiles(lazy) ==
    {c \in tile_keys(lazy) :
        ~deserialize_tile(Slice(lazy.raw_data, lazy.tile_index[c].offset,
                                lazy.tile_index[c].length)).ok}

NeededTiles(v) ==
    LET needed == compute_needed_bitmap_tiles(v.x, v.y, v.z, v.width, v.height, FALSE)
    IN  needed.tiles

\* C7 as stated: a get_tile_buffer call whose viewport needs a tile that the
\* lazy source indexes and cannot decompress does not return a TileBuffer.
C7_DecompressionFailurePropagates ==
    [][(/\ call'.op = "get_tile_buffer"
        /\ mr.lazy_source.some
        /\ \E c \in FailingTiles(mr.lazy_source.v) : c \in NeededTiles(call'.v))
          => ~ret'.ok]_vars

\* C9: right after replace_lazy(source, empty bitmap) the working bitmap has
\* no tile, and while a lazy source is held it keeps having none through
\* every operation other than new, replace, replace_lazy and update that
\* loads no tile of the source.
C9_LazyEmptiness ==
    [][/\ (call'.op = "replace_lazy" /\ call'.ongoing = EmptyBitmap) =>
            DOMAIN peek_latest_bitmap(mr') = {}
       /\ (/\ mr.lazy_source.some
           /\ DOMAIN peek_latest_bitmap(mr) = {}
           /\ call'.op \in ReadingOps
           /\ \A c \in mr'.loaded_tiles \ mr.loaded_tiles :
                 ~decompress_tile(mr.lazy_source.v, c[1], c[2]).some) =>
            DOMAIN peek_latest_bitmap(mr') = {}]_vars

\* peek_latest_bitmap on a lazy renderer whose source holds two tiles
\* returned a bitmap without tiles.
C9_Witness ==
    /\ call.op = "peek_latest_bitmap"
    /\ mr.lazy_source.some
    /\ Cardinality(tile_keys(mr.lazy_source.v)) = 2
    /\ FailingTiles(mr.lazy_source.v) = {}
    /\ ret = EmptyBitmap

(***************************************************************************)
(* SpecLazy: the scenario of the test lazy_loading_correctness_and_        *)
(* performance.  mr is a renderer given replace_lazy(source of the         *)
(* serialized source_bitmap, empty bitmap), ref a renderer built by new    *)
(* from source_bitmap; both are asked for the same frames.                 *)
(***************************************************************************)
LazyBitmaps == BitmapsOver({NearTile, OriginTile, FarTile}, {Bits})

Viewport(x, y, z, width, height, buffer_size_power) ==
    [x |-> x, y |-> y, z |-> z, width |-> width, height |-> height,
     buffer_size_power |-> buffer_size_power]

LazyViewports ==
    [x : {I64(-1), I64(0), I64_MAX, I64_BIG}, y : {0}, z : {8, 9},
     width : {1, 2}, height : {1}, buffer_size_power : {9}]
    \cup {Viewport(I64(0), 0, 10, 1, 1, 9), Viewport(I64(0), 0, 25, 1, 1, 9)}
    \cup {Viewport(I64(-1), 511, 9, 1, 2, 6), Viewport(I64(0), 0, 9, 1, 2, 11)}
    \cup {Viewport(I64(-1), 0, 9, w, 1, 9) : w \in {0, 21}}
    \cup {Viewport(I64(-1), 0, 9, 1, h, 9) : h \in {0, 21}}
    \cup {Viewport(I64(-1), y, 9, 1, 1, 9) : y \in {-1, 512}}
    \cup {Viewport(I64(-1), 0, 26, 1, 1, 9)}
    \cup {Viewport(I64(-1), 0, 9, 1, 1, p) : p \in {5, 12}}

InitLazy ==
    \E b \in LazyBitmaps :
        LET raw == serialize_journey_bitmap(b)
        IN  /\ source_bitmap = b
            /\ mr = replace_lazy(new(EmptyBitmap), from_serialized_bitmap(raw).v, EmptyBitmap)
            /\ ref = new(b)
            /\ call = [op |-> "replace_lazy", raw |-> raw, ongoing |-> EmptyBitmap]
            /\ ret = Unit
            /\ ref_ret = Unit
            /\ frames = 0
            /\ lookups = NoLookups
            /\ overflow_checks \in BOOLEAN
            /\ main_db = <<>>
            /\ cache_db = [k \in {} |-> <<>>]
            /\ ongoing_journey = None
            /\ NoRequests

LazyGetTileBuffer ==
    \E v \in LazyViewports :
        LET lazy == get_tile_buffer(mr, v.x, v.y, v.z, v.width, v.height,
                                    v.buffer_size_power, overflow_checks)
            eager == get_tile_buffer(ref, v.x, v.y, v.z, v.width, v.height,
                                     v.buffer_size_power, overflow_checks)
        IN  /\ frames < MaxFrames
            /\ frames' = frames + 1
            /\ mr' = lazy.r
            /\ ret' = lazy.ret
            /\ ref' = eager.r
            /\ ref_ret' = eager.ret
            /\ call' = [op |-> "get_tile_buffer", v |-> v]
            /\ UNCHANGED <<overflow_checks, source_bitmap, dbVars, lookups>>

LazyEnsureAllTilesLoaded ==
    /\ mr' = ensure_all_tiles_loaded(mr)
    /\ ref' = ensure_all_tiles_loaded(ref)
    /\ call' = [op |-> "ensure_all_tiles_loaded"]
    /\ ret' = Unit
    /\ ref_ret' = Unit
    /\ UNCHANGED <<frames, overflow_checks, source_bitmap, dbVars, lookups>>

LazyGetCurrentArea ==
    /\ mr' = get_current_area(mr).r
    /\ ret' = get_current_area(mr).ret
    /\ ref' = get_current_area(ref).r
    /\ ref_ret' = get_current_area(ref).ret
    /\ call' = [op |-> "get_current_area"]
    /\ UNCHANGED <<frames, overflow_checks, source_bitmap, dbVars, lookups>>

NextLazy ==
    \/ LazyGetTileBuffer
    \/ LazyEnsureAllTilesLoaded
    \/ LazyGetCurrentArea

SpecLazy == InitLazy /\ [][NextLazy]_vars

(***************************************************************************)
(* Properties of the lazy and the eager renderer side by side.             *)
(***************************************************************************)
\* The viewports that pass the validation of section 3.
ValidViewport(v) ==
    /\ v.width \in 1 .. 20
    /\ v.height \in 1 .. 20
    /\ v.z \in 0 .. 25
    /\ v.buffer_size_power \in 6 .. 11
    /\ v.y >= 0 /\ v.y < Pow2(v.z)

\* C3 as stated: for a valid viewport the lazy renderer and the eager
\* renderer of the same bitmap give the same outcome of get_tile_buffer,
\* whatever the lazy renderer loaded in earlier frames.
C3_LazyEagerSameFrame ==
    (call.op = "get_tile_buffer" /\ ValidViewport(call.v)) => ret = ref_ret

\* C4: right after ensure_all_tiles_loaded, following any frames, the
\* working bitmap of the lazy renderer has the tile keys and the tile
\* contents of the working bitmap of the eager renderer of the same bitmap.
C4_AllLoadedEqualsEager ==
    call.op = "ensure_all_tiles_loaded" =>
        /\ DOMAIN peek_latest_bitmap(mr) = DOMAIN peek_latest_bitmap(ref)
        /\ \A c \in DOMAIN peek_latest_bitmap(ref) :
              peek_latest_bitmap(mr)[c] = peek_latest_bitmap(ref)[c]

\* ensure_all_tiles_loaded ran on a lazy renderer that had materialized one
\* of the three tiles of its source in an earlier frame.
C4_Witness ==
    /\ call.op = "ensure_all_tiles_loaded"
    /\ frames > 0
    /\ DOMAIN source_bitmap = {NearTile, OriginTile, FarTile}
    /\ mr.lazy_source.some
    /\ DOMAIN peek_latest_bitmap(mr) = {NearTile, OriginTile, FarTile}

\* C6 as stated: whether or not the renderer holds a lazy source,
\* get_tile_buffer returns Ok exactly for the viewports that pass the
\* validation, an error value for the others, and never "Index out of
\* bounds".
C6_OkExactlyWhenValid ==
    call.op = "get_tile_buffer" =>
        \A out \in {ret, ref_ret} :
            /\ out.ok <=> ValidViewport(call.v)
            /\ ~ValidViewport(call.v) => "err" \in DOMAIN out
            /\ out # Err("Index out of bounds")

\* C8: a frame of a lazy renderer adds to the working bitmap, and changes in
\* it, only tiles of the source that the viewport needs; a tile of the
\* source outside the needed set that the working bitmap did not hold is
\* still not held after the frame.
C8_ViewportLocality ==
    [][(call'.op = "get_tile_buffer" /\ mr.lazy_source.some) =>
          LET keys == tile_keys(mr.lazy_source.v)
              needed == NeededTiles(call'.v)
              before == peek_latest_bitmap(mr)
              after == peek_latest_bitmap(mr')
          IN  /\ DOMAIN before \subseteq DOMAIN after
              /\ DOMAIN after \ DOMAIN before \subseteq keys \cap needed
              /\ \A c \in DOMAIN before : after[c] # before[c] => c \in keys \cap needed
              /\ \A c \in keys \ needed : c \notin DOMAIN before => c \notin DOMAIN after]_vars

\* A frame returned a TileBuffer after materializing the near tile, and the
\* far tile of the source is still absent from the working bitmap.
C8_Witness ==
    /\ call.op = "get_tile_buffer"
    /\ ret.ok
    /\ mr.lazy_source.some
    /\ FarTile \in tile_keys(mr.lazy_source.v)
    /\ NearTile \in DOMAIN peek_latest_bitmap(mr)
    /\ FarTile \notin DOMAIN peek_latest_bitmap(mr)

(***************************************************************************)
(* merged_journey_builder.rs: the aggregation of the stored journeys and   *)
(* the layer cache in front of it.                                         *)
(***************************************************************************)
DefaultKind == "DefaultKind"
Flight == "Flight"

\* LayerKind::All and LayerKind::JourneyKind(kind)
LayerKindAll == [layer |-> "All", kind |-> "All"]
LayerKindJourneyKind(kind) == [layer |-> "JourneyKind", kind |-> kind]
LayerKinds == {LayerKindAll, LayerKindJourneyKind(DefaultKind), LayerKindJourneyKind(Flight)}

JourneyKinds == {DefaultKind, Flight}

\* JourneyData::Bitmap and JourneyData::Vector
JourneyDataBitmap(bitmap) == [variant |-> "Bitmap", bitmap |-> bitmap]
JourneyDataVector(vector) == [variant |-> "Vector", vector |-> vector]

\* What the store holds of a journey whose data is missing or does not
\* decode, and the kind field of a header that does not decode.
JourneyDataUnreadable == [variant |-> "Unreadable"]
UnreadableKind == "Unreadable"

\* A point lies in pixel column longitude of row latitude: tile
\* (longitude \div NBits, latitude), bit longitude % NBits + 1.
PointPos(longitude, latitude) == <<longitude \div NBits, latitude>>
PointBit(longitude) == (longitude % NBits) + 1

RECURSIVE SetPixels(_, _, _)
SetPixels(journey_bitmap, columns, latitude) ==
    IF columns = {} THEN journey_bitmap
    ELSE LET g == CHOOSE c \in columns : TRUE
         IN  SetPixels(BitmapSetBit(journey_bitmap, PointPos(g, latitude), PointBit(g)),
                       columns \ {g}, latitude)

\* JourneyBitmap::add_line (journey_bitmap.rs is not part of the sources;
\* spec section 4.C: the line between two points is rasterized, a
\* zero-length line marks a single pixel).  On one row the pixels from one
\* end to the other are lit, otherwise the pixels of the two ends.
add_line(journey_bitmap, start_lng, start_lat, end_lng, end_lat) ==
    IF start_lat = end_lat
        THEN LET lo == IF start_lng <= end_lng THEN start_lng ELSE end_lng
                 hi == IF start_lng <= end_lng THEN end_lng ELSE start_lng
             IN  SetPixels(journey_bitmap, lo .. hi, start_lat)
    ELSE SetPixels(SetPixels(journey_bitmap, {start_lng}, start_lat), {end_lng}, end_lat)

\* One call of add_line: its four arguments.
Line(prev, point) ==
    [start_lng |-> prev.longitude, start_lat |-> prev.latitude,
     end_lng |-> point.longitude, end_lat |-> point.latitude]

RECURSIVE SegmentLines(_, _)
\* for (i, point) in track_points.iter().enumerate(), from the i-th point
\* on: the add_line calls in order (prev_idx is i.saturating_sub(1) on
\* indices from 0).
SegmentLines(track_points, i) ==
    IF i > Len(track_points) THEN <<>>
    ELSE LET prev_idx == IF i = 1 THEN 1 ELSE i - 1
             prev == track_points[prev_idx]
             point == track_points[i]
         IN  <<Line(prev, point)>> \o SegmentLines(track_points, i + 1)

RECURSIVE add_line_calls_joined(_)
\* Mutant: the points of all segments are drawn as one track.
add_line_calls_joined(track_segments) ==
    IF track_segments = <<>> THEN <<>>
    ELSE IF Len(track_segments) = 1 THEN SegmentLines(track_segments[1].track_points, 1)
    ELSE add_line_calls_joined(
             <<[track_points |-> track_segments[1].track_points
                                     \o track_segments[2].track_points]>>
                 \o Tail(Tail(track_segments)))

RECURSIVE add_line_calls(_)
\* for track_segmant in &journey_vector.track_segments: the add_line calls
\* of the whole vector, in order.
add_line_calls(track_segments) ==
    IF track_segments = <<>> THEN <<>>
    ELSE SegmentLines(Head(track_segments).track_points, 1)
             \o add_line_calls(Tail(track_segments))

RECURSIVE ApplyLines(_, _)
\* The calls made one after the other on journey_bitmap.
ApplyLines(journey_bitmap, lines) ==
    IF lines = <<>> THEN journey_bitmap
    ELSE LET l == Head(lines)
         IN  ApplyLines(add_line(journey_bitmap, l.start_lng, l.start_lat, l.end_lng, l.end_lat),
                        Tail(lines))

add_journey_vector_to_journey_bitmap(journey_bitmap, track_segments) ==
    ApplyLines(journey_bitmap, add_line_calls(track_segments))

\* Txn::query_journeys (main_db.rs is not part of the sources; spec section
\* 4.C: the headers within [from, to], a missing bound being unbounded).
query_journeys(txn, from_date_inclusive, to_date_inclusive) ==
    LET in_range(h) ==
            /\ from_date_inclusive.some => h.journey_date >= from_date_inclusive.v
            /\ to_date_inclusive.some => h.journey_date <= to_date_inclusive.v
        headers == [i \in 1 .. Len(txn) |-> txn[i].header]
    IN  IF \E i \in 1 .. Len(txn) : headers[i].journey_kind \notin JourneyKinds
            THEN Err("journey header unreadable")
        ELSE Ok(SelectSeq(headers, in_range))

\* Txn::get_journey_data (main_db.rs is not part of the sources).
get_journey_data(txn, id) ==
    LET found == {i \in 1 .. Len(txn) : txn[i].header.id = id}
    IN  IF found = {} THEN Err("journey data not found")
        ELSE LET data == txn[CHOOSE i \in found : TRUE].data
             IN  IF data = JourneyDataUnreadable THEN Err("journey data unreadable")
                 ELSE Ok(data)

RECURSIVE FoldJourneys_bitmap_replaces(_, _, _, _)
\* Mutant: a raster journey replaces what was aggregated before it.
FoldJourneys_bitmap_replaces(txn, headers, kind, journey_map) ==
    IF headers = <<>> THEN Ok(journey_map)
    ELSE LET journey_header == Head(headers)
             journey_data == get_journey_data(txn, journey_header.id)
         IN  IF kind.some /\ kind.v # journey_header.journey_kind
                 THEN FoldJourneys_bitmap_replaces(txn, Tail(headers), kind, journey_map)
             ELSE IF ~journey_data.ok THEN journey_data
             ELSE FoldJourneys_bitmap_replaces(txn, Tail(headers), kind,
                      IF journey_data.v.variant = "Bitmap" THEN journey_data.v.bitmap
                      ELSE add_journey_vector_to_journey_bitmap(
                               journey_map, journey_data.v.vector.track_segments))

RECURSIVE FoldJourneys_skips_unreadable(_, _, _, _)
\* Mutant: a journey whose data cannot be read is left out and the build
\* goes on.
FoldJourneys_skips_unreadable(txn, headers, kind, journey_map) ==
    IF headers = <<>> THEN Ok(journey_map)
    ELSE LET journey_header == Head(headers)
             journey_data == get_journey_data(txn, journey_header.id)
             included == (kind.some => kind.v = journey_header.journey_kind) /\ journey_data.ok
         IN  FoldJourneys_skips_unreadable(txn, Tail(headers), kind,
                 IF ~included THEN journey_map
                 ELSE IF journey_data.v.variant = "Bitmap"
                     THEN BitmapMerge(journey_map, journey_data.v.bitmap)
                 ELSE add_journey_vector_to_journey_bitmap(
                          journey_map, journey_data.v.vector.track_segments))

RECURSIVE FoldJourneys(_, _, _, _)
\* The loop of get_range_internal over the headers.
FoldJourneys(txn, headers, kind, journey_map) ==
    IF headers = <<>> THEN Ok(journey_map)
    ELSE LET journey_header == Head(headers)
             should_include == IF ~kind.some THEN TRUE
                               ELSE kind.v = journey_header.journey_kind
         IN  IF ~should_include THEN FoldJourneys(txn, Tail(headers), kind, journey_map)
             ELSE LET journey_data == get_journey_data(txn, journey_header.id)
                  IN  IF ~journey_data.ok THEN journey_data
                      ELSE FoldJourneys(txn, Tail(headers), kind,
                               IF journey_data.v.variant = "Bitmap"
                                   THEN BitmapMerge(journey_map, journey_data.v.bitmap)
                               ELSE add_journey_vector_to_journey_bitmap(
                                        journey_map, journey_data.v.vector.track_segments))

get_range_internal(txn, from_date_inclusive, to_date_inclusive, kind) ==
    LET headers == query_journeys(txn, from_date_inclusive, to_date_inclusive)
    IN  IF ~headers.ok THEN headers
        ELSE FoldJourneys(txn, headers.v, kind, EmptyBitmap)

\* CacheDb::get_full_journey_cache_or_compute (cache_db.rs is not part of
\* the sources; spec section 4.D).  computed is the outcome of running the
\* closure on a miss: the cache as the closure left it and its result.  A
\* hit decodes the stored blob; a miss stores the serialized result, an
\* error stores nothing.
get_full_journey_cache_or_compute(cache, layer_kind, computed) ==
    IF layer_kind \in DOMAIN cache
        THEN [cache_db |-> cache, ret |-> deserialize_journey_bitmap(cache[layer_kind])]
    ELSE IF ~computed.ret.ok THEN computed
    ELSE [cache_db |-> [k \in DOMAIN computed.cache_db \cup {layer_kind} |->
                          IF k = layer_kind THEN serialize_journey_bitmap(computed.ret.v)
                          ELSE computed.cache_db[k]],
          ret |-> computed.ret]

RECURSIVE get_all_finalized_journeys_default_only(_, _, _)
\* Mutant: the All layer leaves the flight sub-layer out.
get_all_finalized_journeys_default_only(main_db_txn, cache, layer_kind) ==
    get_full_journey_cache_or_compute(cache, layer_kind,
        IF layer_kind = LayerKindAll
            THEN get_all_finalized_journeys_default_only(main_db_txn, cache,
                     LayerKindJourneyKind(DefaultKind))
        ELSE [cache_db |-> cache,
              ret |-> get_range_internal(main_db_txn, None, None, Some(layer_kind.kind))])

RECURSIVE get_all_finalized_journeys(_, _, _)
get_all_finalized_journeys(main_db_txn, cache, layer_kind) ==
    get_full_journey_cache_or_compute(cache, layer_kind,
        IF layer_kind = LayerKindAll
            THEN LET default_bitmap == get_all_finalized_journeys(main_db_txn, cache,
                                           LayerKindJourneyKind(DefaultKind))
                 IN  IF ~default_bitmap.ret.ok THEN default_bitmap
                     ELSE LET flight_bitmap ==
                                  get_all_finalized_journeys(main_db_txn,
                                      default_bitmap.cache_db, LayerKindJourneyKind(Flight))
                          IN  IF ~flight_bitmap.ret.ok THEN flight_bitmap
                              ELSE [cache_db |-> flight_bitmap.cache_db,
                                    ret |-> Ok(BitmapMerge(default_bitmap.ret.v,
                                                           flight_bitmap.ret.v))]
        ELSE [cache_db |-> cache,
              ret |-> get_range_internal(main_db_txn, None, None, Some(layer_kind.kind))])

\* The writer's side (storage.rs is not part of the sources; spec section
\* 4.D: invalidation on writes to the main store is the writer's): the
\* journey is stored under the next id and every cached layer is dropped.
insert_journey(db, journey_kind, journey_date, data) ==
    Append(db, [header |-> [id |-> Len(db) + 1, journey_kind |-> journey_kind,
                            journey_date |-> journey_date],
                data |-> data])

clear_journey_cache(cache) == [k \in {} |-> <<>>]

(***************************************************************************)
(* SpecCache: journeys are stored and layers are requested.                *)
(***************************************************************************)
Point(longitude, latitude) == [longitude |-> longitude, latitude |-> latitude]

Segment(track_points) == [track_points |-> track_points]

\* Raster and polyline journeys of both kinds.
SpecJourneys ==
    {[journey_kind |-> DefaultKind, journey_date |-> 1,
      data |-> JourneyDataBitmap([c \in {NearTile} |-> {1}])],
     [journey_kind |-> Flight, journey_date |-> 2,
      data |-> JourneyDataBitmap([c \in {NearTile, FarTile} |-> {NBits}])],
     [journey_kind |-> DefaultKind, journey_date |-> 2,
      data |-> JourneyDataVector([track_segments |->
                  <<Segment(<<Point(0, 0), Point(NBits, 0)>>)>>])],
     [journey_kind |-> Flight, journey_date |-> 1,
      data |-> JourneyDataVector([track_segments |->
                  <<Segment(<<>>), Segment(<<Point(1, 5)>>)>>])]}

InitCache ==
    /\ main_db = <<>>
    /\ cache_db = [k \in {} |-> <<>>]
    /\ ongoing_journey = None
    /\ NoRequests
    /\ call = [op |-> "open"]
    /\ ret = Unit
    /\ mr = new(EmptyBitmap)
    /\ overflow_checks = FALSE
    /\ ref = new(EmptyBitmap)
    /\ ref_ret = Unit
    /\ source_bitmap = EmptyBitmap
    /\ frames = 0
    /\ lookups = NoLookups

InsertJourney ==
    \E j \in SpecJourneys :
        /\ Len(main_db) < MaxJourneys
        /\ main_db' = insert_journey(main_db, j.journey_kind, j.journey_date, j.data)
        /\ cache_db' = clear_journey_cache(cache_db)
        /\ call' = [op |-> "insert_journey", journey |-> j]
        /\ ret' = Unit
        /\ UNCHANGED <<mr, overflow_checks, refVars, ongoing_journey, requests, computes, lookups>>

\* call.warm: the layers the cache held when the request came.
GetAllFinalizedJourneys ==
    \E layer_kind \in LayerKinds :
        LET got == get_all_finalized_journeys(main_db, cache_db, layer_kind)
        IN  /\ cache_db' = got.cache_db
            /\ ret' = got.ret
            /\ call' = [op |-> "get_all_finalized_journeys", layer_kind |-> layer_kind,
                        warm |-> DOMAIN cache_db]
            /\ UNCHANGED <<main_db, mr, overflow_checks, refVars, ongoing_journey,
                           requests, computes, lookups>>

NextCache ==
    \/ InsertJourney
    \/ GetAllFinalizedJourneys

SpecCache == InitCache /\ [][NextCache]_vars

\* C10: the bitmap a request for LayerKind::All returns is the merge of the
\* bitmaps that requests for JourneyKind(DefaultKind) and JourneyKind(Flight)
\* return through the same cache, as the cache stood before the request
\* (whichever layers it held) and as it stands after it.
C10_AllIsMergeOfSubLayers ==
    [][(call'.op = "get_all_finalized_journeys" /\ call'.layer_kind = LayerKindAll) =>
          LET sub(cache) ==
                  LET d == get_all_finalized_journeys(main_db, cache,
                               LayerKindJourneyKind(DefaultKind))
                      f == get_all_finalized_journeys(main_db, d.cache_db,
                               LayerKindJourneyKind(Flight))
                  IN  BitmapMerge(d.ret.v, f.ret.v)
          IN  /\ ret'.ok
              /\ ret'.v = sub(cache_db)
              /\ ret'.v = sub(cache_db')]_vars

\* With one default journey and one flight journey stored and only the
\* default layer warm, the All layer came back with the pixels of both.
C10_Witness ==
    /\ call.op = "get_all_finalized_journeys"
    /\ call.layer_kind = LayerKindAll
    /\ call.warm = {LayerKindJourneyKind(DefaultKind)}
    /\ Len(main_db) = 2
    /\ {main_db[i].header.journey_kind : i \in 1 .. 2} = {DefaultKind, Flight}
    /\ ret.ok
    /\ ret.v = [c \in {NearTile, FarTile} |-> IF c = NearTile THEN {1, NBits} ELSE {NBits}]

(***************************************************************************)
(* SpecFlight: concurrent get_latest requests for layers of a cold cache.  *)
(* get_latest takes main_db: &mut MainDb and runs inside                    *)
(* main_db.with_txn, so a request holds the store exclusively from Begin   *)
(* until it is done; inside, get_all_finalized_journeys runs step by step: *)
(* a frame of the stack is one call of it, the lookup of its key, and on a *)
(* miss the run of its closure.  The cache is modelled without any lock of *)
(* its own.  computes counts the runs of each layer's closure.             *)
(***************************************************************************)
Procs == 1 .. MaxRequests

IdleRequest == [state |-> "idle", layer_kind |-> LayerKindAll, stack |-> <<>>, result |-> Unit]

Frame(layer_kind, pc) == [layer_kind |-> layer_kind, pc |-> pc, default_bitmap |-> EmptyBitmap]

\* The store side of CacheDb (cache_db.rs is not part of the sources): the
\* serialized bitmap becomes the blob of the layer.
CachePut(cache, layer_kind, journey_bitmap) ==
    [k \in DOMAIN cache \cup {layer_kind} |->
        IF k = layer_kind THEN serialize_journey_bitmap(journey_bitmap) ELSE cache[k]]

\* Mutant: requests share the store.
ExclusiveMainDb_shared(reqs, p) == TRUE

\* main_db: &mut MainDb; no other request is inside with_txn.
ExclusiveMainDb(reqs, p) == \A q \in DOMAIN reqs \ {p} : reqs[q].state # "running"

RECURSIVE Return(_, _, _)
\* The top call returns res to its caller: the request itself, or the
\* closure of the All layer, which goes on with the flight layer after the
\* default one, merges and stores after the flight one, and gives up with
\* the error of either (the ? operator), storing nothing.
Return(req, cache, res) ==
    LET rest == Tail(req.stack)
    IN  IF rest = <<>>
            THEN [req |-> [req EXCEPT !.state = "done", !.stack = <<>>, !.result = res],
                  cache_db |-> cache]
        ELSE LET parent == Head(rest)
             IN  IF ~res.ok THEN Return([req EXCEPT !.stack = rest], cache, res)
                 ELSE IF parent.pc = "default"
                     THEN [req |-> [req EXCEPT !.stack =
                                      <<Frame(LayerKindJourneyKind(Flight), "lookup"),
                                        [parent EXCEPT !.pc = "flight",
                                                       !.default_bitmap = res.v]>>
                                      \o Tail(rest)],
                           cache_db |-> cache]
                 ELSE LET merged == BitmapMerge(parent.default_bitmap, res.v)
                      IN  Return([req EXCEPT !.stack = rest],
                                 CachePut(cache, parent.layer_kind, merged), Ok(merged))

\* What lets a request take each of its steps.
CanBegin(p) == requests[p].state = "waiting" /\ ExclusiveMainDb(requests, p)

CanLookup(p) == requests[p].state = "running" /\ Head(requests[p].stack).pc = "lookup"

CanCompute(p) == requests[p].state = "running" /\ Head(requests[p].stack).pc = "compute"

Request(p) ==
    \E layer_kind \in LayerKinds :
        /\ requests[p].state = "idle"
        /\ requests' = [requests EXCEPT ![p] = [@ EXCEPT !.state = "waiting",
                                                         !.layer_kind = layer_kind]]
        /\ UNCHANGED <<mr, overflow_checks, call, ret, refVars, main_db, cache_db,
                       ongoing_journey, computes, lookups>>

Begin(p) ==
    /\ CanBegin(p)
    /\ requests' = [requests EXCEPT ![p] =
                      [@ EXCEPT !.state = "running",
                                !.stack = <<Frame(requests[p].layer_kind, "lookup")>>]]
    /\ UNCHANGED <<mr, overflow_checks, call, ret, refVars, main_db, cache_db,
                   ongoing_journey, computes, lookups>>

CacheLookup(p) ==
    /\ CanLookup(p)
    /\ LET top == Head(requests[p].stack)
           layer_kind == top.layer_kind
       IN  IF layer_kind \in DOMAIN cache_db
               THEN LET back == Return(requests[p], cache_db,
                                       deserialize_journey_bitmap(cache_db[layer_kind]))
                    IN  /\ requests' = [requests EXCEPT ![p] = back.req]
                        /\ cache_db' = back.cache_db
                        /\ UNCHANGED computes
           ELSE /\ computes' = [computes EXCEPT ![layer_kind] = @ + 1]
                /\ requests' = [requests EXCEPT ![p].stack =
                      IF layer_kind = LayerKindAll
                          THEN <<Frame(LayerKindJourneyKind(DefaultKind), "lookup"),
                                 [top EXCEPT !.pc = "default"]>> \o Tail(@)
                      ELSE <<[top EXCEPT !.pc = "compute"]>> \o Tail(@)]
                /\ UNCHANGED cache_db
    /\ UNCHANGED <<mr, overflow_checks, call, ret, refVars, main_db, ongoing_journey, lookups>>

ComputeRange(p) ==
    /\ CanCompute(p)
    /\ LET layer_kind == Head(requests[p].stack).layer_kind
           res == get_range_internal(main_db, None, None, Some(layer_kind.kind))
           back == Return(requests[p],
                          IF res.ok THEN CachePut(cache_db, layer_kind, res.v) ELSE cache_db,
                          res)
       IN  /\ requests' = [requests EXCEPT ![p] = back.req]
           /\ cache_db' = back.cache_db
    /\ UNCHANGED <<mr, overflow_checks, call, ret, refVars, main_db, ongoing_journey,
                   computes, lookups>>

FlightJourneys ==
    {[journey_kind |-> DefaultKind, journey_date |-> 1,
      data |-> JourneyDataBitmap([c \in {NearTile} |-> {1}])],
     [journey_kind |-> Flight, journey_date |-> 2,
      data |-> JourneyDataBitmap([c \in {NearTile, FarTile} |-> {NBits}])]}

RECURSIVE StoresUpTo(_, _)
\* The stores of at most n journeys of a set.
StoresUpTo(journeys, n) ==
    IF n = 0 THEN {<<>>}
    ELSE StoresUpTo(journeys, n - 1)
         \cup {insert_journey(db, j.journey_kind, j.journey_date, j.data) :
                 db \in StoresUpTo(journeys, n - 1), j \in journeys}

InitFlight ==
    /\ main_db \in StoresUpTo(FlightJourneys, MaxJourneys)
    /\ cache_db = [k \in {} |-> <<>>]
    /\ ongoing_journey = None
    /\ requests = [p \in Procs |-> IdleRequest]
    /\ computes = [k \in LayerKinds |-> 0]
    /\ call = [op |-> "open"]
    /\ ret = Unit
    /\ mr = new(EmptyBitmap)
    /\ overflow_checks = FALSE
    /\ ref = new(EmptyBitmap)
    /\ ref_ret = Unit
    /\ source_bitmap = EmptyBitmap
    /\ frames = 0
    /\ lookups = NoLookups

NextFlight ==
    \E p \in Procs :
        \/ Request(p)
        \/ Begin(p)
        \/ CacheLookup(p)
        \/ ComputeRange(p)

SpecFlight == InitFlight /\ [][NextFlight]_vars

\* The steps a request still has to take at most: a lookup may hit, or
\* miss and run the closure; the closure of the All layer calls for the
\* default layer, then for the flight layer.
FrameSteps(frame) ==
    IF frame.layer_kind = LayerKindAll
        THEN (IF frame.pc = "lookup" THEN 6 ELSE IF frame.pc = "default" THEN 3 ELSE 0)
    ELSE (IF frame.pc = "lookup" THEN 2 ELSE 1)

RECURSIVE StackSteps(_)
StackSteps(stack) ==
    IF stack = <<>> THEN 0 ELSE FrameSteps(Head(stack)) + StackSteps(Tail(stack))

StepsLeft(req) ==
    IF req.state = "idle" THEN 8
    ELSE IF req.state = "waiting" THEN 7
    ELSE IF req.state = "running" THEN StackSteps(req.stack)
    ELSE 0

FaultyJourneys ==
    {[journey_kind |-> DefaultKind, journey_date |-> 1, data |-> JourneyDataUnreadable],
     [journey_kind |-> Flight, journey_date |-> 2, data |-> JourneyDataUnreadable],
     [journey_kind |-> UnreadableKind, journey_date |-> 1,
      data |-> JourneyDataBitmap([c \in {FarTile} |-> {1}])]}

InsertFaultyJourney ==
    \E j \in FaultyJourneys :
        /\ Len(main_db) < MaxJourneys
        /\ main_db' = insert_journey(main_db, j.journey_kind, j.journey_date, j.data)
        /\ cache_db' = clear_journey_cache(cache_db)
        /\ call' = [op |-> "insert_journey", journey |-> j]
        /\ ret' = Unit
        /\ UNCHANGED <<mr, overflow_checks, refVars, ongoing_journey, requests, computes, lookups>>

NextFaulty ==
    \/ InsertJourney
    \/ InsertFaultyJourney
    \/ GetAllFinalizedJourneys

SpecFaulty == InitCache /\ [][NextFaulty]_vars

\* The store calls a build of the layer of one journey kind makes: the
\* query of the headers and, while none has failed, the read of the data of
\* every header of the kind.
QueryFails(db) == ~query_journeys(db, None, None).ok

DataFails(db, kind) ==
    \E i \in 1 .. Len(db) :
        /\ db[i].header.journey_kind = kind
        /\ ~get_journey_data(db, db[i].header.id).ok

\* The builds a request for a layer runs: of the layer itself, or for the
\* All layer of the sub-layers the cache does not hold.
BuildFails(db, cache, layer_kind) ==
    IF layer_kind \in DOMAIN cache THEN FALSE
    ELSE IF layer_kind = LayerKindAll
        THEN \E kind \in JourneyKinds :
                /\ LayerKindJourneyKind(kind) \notin DOMAIN cache
                /\ QueryFails(db) \/ DataFails(db, kind)
    ELSE QueryFails(db) \/ DataFails(db, layer_kind.kind)

StoreErrors == {Err("journey header unreadable"), Err("journey data unreadable")}

\* C12: a request whose build meets a failing query_journeys or
\* get_journey_data call returns that error and no bitmap, and leaves the
\* layer it was computing without a cache entry; a request whose build
\* meets none returns a bitmap; and a blob the cache holds is the full
\* aggregation of its layer.
C12_AllOrNothing ==
    /\ [][call'.op = "get_all_finalized_journeys" =>
            IF BuildFails(main_db, cache_db, call'.layer_kind)
                THEN /\ ret' \in StoreErrors
                     /\ call'.layer_kind \notin DOMAIN cache_db'
            ELSE ret'.ok]_vars
    /\ [](\A k \in DOMAIN cache_db :
            /\ ~BuildFails(main_db, [c \in {} |-> <<>>], k)
            /\ Ok(deserialize_journey_bitmap(cache_db[k]).v) =
                  get_all_finalized_journeys(main_db, [c \in {} |-> <<>>], k).ret)

\* The default layer was built and stored, then the flight layer's data
\* could not be read: the request for the All layer returned the error and
\* the cache holds the default layer only.
C12_Witness ==
    /\ call.op = "get_all_finalized_journeys"
    /\ call.layer_kind = LayerKindAll
    /\ call.warm = {}
    /\ ret = Err("journey data unreadable")
    /\ DOMAIN cache_db = {LayerKindJourneyKind(DefaultKind)}
    /\ Len(main_db) = 2
    /\ deserialize_journey_bitmap(cache_db[LayerKindJourneyKind(DefaultKind)]).v
          = [c \in {NearTile} |-> {1}]

(***************************************************************************)
(* The order in which the store enumerates the headers.                    *)
(***************************************************************************)
\* The stores that hold the rows of db in another order.
Reorderings(db) ==
    {[i \in 1 .. Len(db) |-> db[f[i]]] : f \in Permutations(1 .. Len(db))}

KindFilters == {None} \cup {Some(kind) : kind \in JourneyKinds}

\* C13: whatever the order in which the headers of the stored journeys,
\* raster and polyline, are enumerated, the aggregation under a kind filter
\* (or none) is the same bitmap.
C13_OrderIndependent ==
    \A kind \in KindFilters :
        \A other \in Reorderings(main_db) :
            /\ get_range_internal(main_db, None, None, kind).ok
            /\ get_range_internal(other, None, None, kind)
                  = get_range_internal(main_db, None, None, kind)

\* The default layer was aggregated from a polyline journey stored before a
\* raster journey, and holds the pixels of both.
C13_Witness ==
    /\ call.op = "get_all_finalized_journeys"
    /\ call.layer_kind = LayerKindJourneyKind(DefaultKind)
    /\ call.warm = {}
    /\ Len(main_db) = 2
    /\ main_db[1].data.variant = "Vector"
    /\ main_db[2].data.variant = "Bitmap"
    /\ main_db[1].header.journey_kind = DefaultKind
    /\ main_db[2].header.journey_kind = DefaultKind
    /\ ret = Ok(BitmapMerge(main_db[2].data.bitmap,
                            add_journey_vector_to_journey_bitmap(
                                EmptyBitmap, main_db[1].data.vector.track_segments)))
    /\ Cardinality(DOMAIN ret.v) = 3

(***************************************************************************)
(* Dropping the lazy source.                                               *)
(***************************************************************************)
LoadingOps == {"get_tile_buffer", "ensure_all_tiles_loaded", "get_current_area"}

\* C14: drop_lazy_source leaves the renderer without a lazy source and with
\* no tile marked loaded, its working bitmap and its version as they were;
\* and while the renderer has no lazy source, get_tile_buffer,
\* ensure_all_tiles_loaded and get_current_area leave the working bitmap as
\* it is and the renderer without a source.
C14_DropLazySource ==
    [][/\ call'.op = "drop_lazy_source" =>
            /\ mr'.lazy_source = None
            /\ mr'.loaded_tiles = {}
            /\ peek_latest_bitmap(mr') = peek_latest_bitmap(mr)
            /\ mr'.version = mr.version
       /\ (call'.op \in LoadingOps /\ ~mr.lazy_source.some) =>
            /\ peek_latest_bitmap(mr') = peek_latest_bitmap(mr)
            /\ mr'.lazy_source = None]_vars

\* After replace_lazy a frame merged the near tile of the source, the
\* source was dropped, and a later frame returned a TileBuffer: the near
\* tile is still in the working bitmap and the far tile of the source was
\* not added.
C14_Witness ==
    /\ call.op = "get_tile_buffer"
    /\ ret.ok
    /\ mr.lazy_source = None
    /\ mr.version = VersionOne
    /\ DOMAIN peek_latest_bitmap(mr) = {NearTile}
    /\ peek_latest_bitmap(mr)[NearTile] = {NBits}

(***************************************************************************)
(* Wrap-around of x.                                                       *)
(***************************************************************************)
\* The sampled x that differ from v.x by a multiple of 2^z: x - 2^z,
\* x + 2^z, and of the far ends of the i64 range those that do.
WrappedXs(v) ==
    {x2 \in {I64Add(v.x, Pow2(v.z)).v, I64(-1), I64(0), I64(-Pow2(v.z)), I64_MAX, I64_BIG} :
        I64Mod(x2, Pow2(v.z)) = I64Mod(v.x, Pow2(v.z))}

\* C15 as stated: for a valid viewport, get_tile_buffer with x and with an
\* x that differs from it by a multiple of 2^z both return a TileBuffer,
\* with the same tile_data and after loading the same tiles of the source,
\* each TileBuffer carrying the x it was asked for.
C15_WrapAround ==
    [][(call'.op = "get_tile_buffer" /\ ValidViewport(call'.v)) =>
          \A x2 \in WrappedXs(call'.v) :
              LET v == call'.v
                  other == get_tile_buffer(mr, x2, v.y, v.z, v.width, v.height,
                                           v.buffer_size_power, overflow_checks)
              IN  /\ ret'.ok /\ other.ret.ok
                  /\ other.ret.v.tile_data = ret'.v.tile_data
                  /\ other.r.loaded_tiles = mr'.loaded_tiles
                  /\ peek_latest_bitmap(other.r) = peek_latest_bitmap(mr')
                  /\ ret'.v.x = v.x /\ other.ret.v.x = x2]_vars

(***************************************************************************)
(* The version counter at both ends of the u64 range.  A renderer that     *)
(* has been replaced n times is new(empty) with version n; the behaviours  *)
(* start from such renderers for the n within 16^MaxCarry of 0 and of      *)
(* 2^64, and stop bumping once the version leaves these.                   *)
(***************************************************************************)
VersionSamples ==
    {[i \in 1 .. VERSION_DIGITS |->
         IF i <= VERSION_DIGITS - MaxCarry THEN top ELSE low[i - (VERSION_DIGITS - MaxCarry)]] :
       top \in {0, 15}, low \in [1 .. MaxCarry -> 0 .. 15]}

Sampled(v) == \E top \in {0, 15} : \A i \in 1 .. VERSION_DIGITS - MaxCarry : v[i] = top

VersionBitmap == [c \in {NearTile} |-> {1}]
VersionMutator == [pos |-> NearTile, bit |-> 1, reports |-> TRUE]

InitVersion ==
    /\ \E v \in VersionSamples :
          /\ mr = [new(EmptyBitmap) EXCEPT !.version = v]
          /\ call = IF v = VersionZero THEN [op |-> "new", bitmap |-> EmptyBitmap]
                    ELSE [op |-> "replace", bitmap |-> EmptyBitmap]
    /\ overflow_checks \in BOOLEAN
    /\ ret = Unit
    /\ ref = new(EmptyBitmap)
    /\ ref_ret = Unit
    /\ source_bitmap = EmptyBitmap
    /\ frames = 0
    /\ lookups = NoLookups
    /\ main_db = <<>>
    /\ cache_db = [k \in {} |-> <<>>]
    /\ ongoing_journey = None
    /\ NoRequests

VersionNew ==
    /\ mr' = new(VersionBitmap)
    /\ call' = [op |-> "new", bitmap |-> VersionBitmap]
    /\ ret' = Unit
    /\ UNCHANGED <<overflow_checks, refVars, dbVars, lookups>>

VersionUpdate ==
    /\ Sampled(mr.version)
    /\ mr' = update(mr, VersionMutator)
    /\ call' = [op |-> "update", f |-> VersionMutator]
    /\ ret' = Unit
    /\ UNCHANGED <<overflow_checks, refVars, dbVars, lookups>>

VersionReplace ==
    /\ Sampled(mr.version)
    /\ mr' = replace(mr, EmptyBitmap)
    /\ call' = [op |-> "replace", bitmap |-> EmptyBitmap]
    /\ ret' = Unit
    /\ UNCHANGED <<overflow_checks, refVars, dbVars, lookups>>

VersionReplaceLazy ==
    LET raw == serialize_journey_bitmap(VersionBitmap)
    IN  /\ Sampled(mr.version)
        /\ mr' = replace_lazy(mr, from_serialized_bitmap(raw).v, EmptyBitmap)
        /\ call' = [op |-> "replace_lazy", raw |-> raw, ongoing |-> EmptyBitmap]
        /\ ret' = Unit
        /\ UNCHANGED <<overflow_checks, refVars, dbVars, lookups>>

NextVersion == VersionNew \/ VersionUpdate \/ VersionReplace \/ VersionReplaceLazy

SpecVersion == InitVersion /\ [][NextVersion]_vars

\* The u64 a version stands for, as four 16-bit limbs, least significant
\* first, and its successor modulo 2^64 by carrying from limb to limb.
U64Limbs(v) ==
    [n \in 1 .. 4 |->
        LET d == VERSION_DIGITS - 4 * (n - 1)
        IN  v[d] + 16 * v[d - 1] + 256 * v[d - 2] + 4096 * v[d - 3]]

RECURSIVE Carry(_, _)
Carry(limbs, n) == IF n = 1 THEN 1 ELSE (limbs[n - 1] + Carry(limbs, n - 1)) \div 65536

PlusOneMod2_64(limbs) == [n \in 1 .. 4 |-> (limbs[n] + Carry(limbs, n)) % 65536]

U64_MAX == [i \in 1 .. VERSION_DIGITS |-> 15]

\* C16: replace, replace_lazy and update each leave the version at
\* (previous version + 1) mod 2^64 and return normally in either build, so
\* that 2^64 - 1 is followed by 0; a renderer built by new has version 0.
C16_VersionCounter ==
    [][/\ call'.op \in {"replace", "replace_lazy", "update"} =>
            /\ U64Limbs(mr'.version) = PlusOneMod2_64(U64Limbs(mr.version))
            /\ (mr.version = U64_MAX => mr'.version = VersionZero)
            /\ ret' = Unit
       /\ call'.op = "new" => mr'.version = VersionZero]_vars

\* A replace_lazy has taken the version from 2^64 - 1 to 0.
C16_Witness ==
    /\ call.op = "replace_lazy"
    /\ mr.version = VersionZero
    /\ mr.lazy_source # None

(***************************************************************************)
(* get_latest and get_latest_lazy.  The store a call sees is its finalized *)
(* journeys and its ongoing journey.                                       *)
(***************************************************************************)
MainDb(journeys, ongoing) == [journeys |-> journeys, ongoing |-> ongoing]

\* Txn::get_ongoing_journey(None) (main_db.rs is not part of the sources;
\* spec section 4.D: the track being recorded, if any).
get_ongoing_journey(txn) == Ok(txn.ongoing)

\* CacheDb::get_full_journey_cache_raw (cache_db.rs is not part of the
\* sources; spec section 4.D: the stored blob, if any, undecoded).
get_full_journey_cache_raw(cache, layer_kind) ==
    Ok(IF layer_kind \in DOMAIN cache THEN Some(cache[layer_kind]) ELSE None)

\* Mutant: the ongoing journey is drawn first and the layer is cached with
\* it.
get_latest_caches_ongoing(db, cache, layer_kind, include_ongoing) ==
    LET finalized == IF layer_kind.some
                         THEN get_all_finalized_journeys(db.journeys, cache, layer_kind.v)
                     ELSE [cache_db |-> cache, ret |-> Ok(EmptyBitmap)]
    IN  IF ~finalized.ret.ok \/ ~include_ongoing \/ ~db.ongoing.some THEN finalized
        ELSE LET drawn == add_journey_vector_to_journey_bitmap(
                              finalized.ret.v, db.ongoing.v.track_segments)
             IN  [cache_db |-> IF layer_kind.some
                                   THEN [finalized.cache_db EXCEPT
                                            ![layer_kind.v] = serialize_journey_bitmap(drawn)]
                               ELSE finalized.cache_db,
                  ret |-> Ok(drawn)]

\* Mutant: the ongoing journey is left out.
get_latest_finalized_only(db, cache, layer_kind, include_ongoing) ==
    IF layer_kind.some THEN get_all_finalized_journeys(db.journeys, cache, layer_kind.v)
    ELSE [cache_db |-> cache, ret |-> Ok(EmptyBitmap)]

\* The cache as the call leaves it, and the call's result.
get_latest(db, cache, layer_kind, include_ongoing) ==
    LET finalized == IF layer_kind.some
                         THEN get_all_finalized_journeys(db.journeys, cache, layer_kind.v)
                     ELSE [cache_db |-> cache, ret |-> Ok(EmptyBitmap)]
    IN  IF ~finalized.ret.ok THEN finalized
        ELSE IF ~include_ongoing THEN finalized
        ELSE LET journey_vector == get_ongoing_journey(db)
             IN  IF ~journey_vector.ok
                     THEN [cache_db |-> finalized.cache_db, ret |-> journey_vector]
                 ELSE IF ~journey_vector.v.some THEN finalized
                 ELSE [cache_db |-> finalized.cache_db,
                       ret |-> Ok(add_journey_vector_to_journey_bitmap(
                                     finalized.ret.v, journey_vector.v.v.track_segments))]

\* Mutant: the blob is looked up but the eager path is always taken.
get_latest_lazy_always_eager(db, cache, layer_kind, include_ongoing) ==
    LET full_bitmap == get_latest(db, cache, layer_kind, include_ongoing)
    IN  IF ~full_bitmap.ret.ok THEN full_bitmap
        ELSE [cache_db |-> full_bitmap.cache_db,
              ret |-> Ok([lazy_source |-> None, bitmap |-> full_bitmap.ret.v])]

\* The result is the pair (Option<LazyTileSource>, JourneyBitmap).
get_latest_lazy(db, cache, layer_kind, include_ongoing) ==
    LET raw_blob == IF layer_kind.some THEN get_full_journey_cache_raw(cache, layer_kind.v)
                    ELSE Ok(None)
    IN  IF ~raw_blob.ok THEN [cache_db |-> cache, ret |-> raw_blob]
        ELSE IF raw_blob.v.some
            THEN LET lazy_source == from_serialized_bitmap(raw_blob.v.v)
                     journey_vector == get_ongoing_journey(db)
                 IN  IF ~lazy_source.ok THEN [cache_db |-> cache, ret |-> lazy_source]
                     ELSE IF include_ongoing /\ ~journey_vector.ok
                         THEN [cache_db |-> cache, ret |-> journey_vector]
                     ELSE [cache_db |-> cache,
                           ret |-> Ok([lazy_source |-> Some(lazy_source.v),
                                       bitmap |->
                                           IF include_ongoing /\ journey_vector.v.some
                                               THEN add_journey_vector_to_journey_bitmap(
                                                        EmptyBitmap,
                                                        journey_vector.v.v.track_segments)
                                           ELSE EmptyBitmap])]
        ELSE LET full_bitmap == get_latest(db, cache, layer_kind, include_ongoing)
             IN  IF ~full_bitmap.ret.ok THEN full_bitmap
                 ELSE [cache_db |-> full_bitmap.cache_db,
                       ret |-> Ok([lazy_source |-> None, bitmap |-> full_bitmap.ret.v])]

(***************************************************************************)
(* SpecLatest: journeys are stored, a recording starts or ends, and the    *)
(* main map is requested eagerly or lazily.                                *)
(***************************************************************************)
\* The track being recorded: it crosses the near tile's row of pixels.
OngoingVectors ==
    {[track_segments |-> <<Segment(<<Point(511 * NBits, 0), Point(511 * NBits + 1, 0)>>)>>]}

LatestLayerKinds == {None} \cup {Some(layer_kind) : layer_kind \in LayerKinds}

SetOngoingJourney ==
    \E ongoing \in {None} \cup {Some(v) : v \in OngoingVectors} :
        /\ ongoing # ongoing_journey
        /\ ongoing_journey' = ongoing
        /\ call' = [op |-> "set_ongoing_journey", ongoing |-> ongoing]
        /\ ret' = Unit
        /\ UNCHANGED <<mr, overflow_checks, refVars, main_db, cache_db, requests, computes, lookups>>

GetLatest ==
    \E layer_kind \in LatestLayerKinds, include_ongoing \in BOOLEAN :
        LET got == get_latest(MainDb(main_db, ongoing_journey), cache_db, layer_kind,
                              include_ongoing)
        IN  /\ cache_db' = got.cache_db
            /\ ret' = got.ret
            /\ call' = [op |-> "get_latest", layer_kind |-> layer_kind,
                        include_ongoing |-> include_ongoing]
            /\ UNCHANGED <<main_db, mr, overflow_checks, refVars, ongoing_journey,
                           requests, computes, lookups>>

GetLatestLazy ==
    \E layer_kind \in LatestLayerKinds, include_ongoing \in BOOLEAN :
        LET got == get_latest_lazy(MainDb(main_db, ongoing_journey), cache_db, layer_kind,
                                   include_ongoing)
        IN  /\ cache_db' = got.cache_db
            /\ ret' = got.ret
            /\ call' = [op |-> "get_latest_lazy", layer_kind |-> layer_kind,
                        include_ongoing |-> include_ongoing]
            /\ UNCHANGED <<main_db, mr, overflow_checks, refVars, ongoing_journey,
                           requests, computes, lookups>>

NextLatest ==
    \/ InsertJourney
    \/ SetOngoingJourney
    \/ GetLatest
    \/ GetLatestLazy

SpecLatest == InitCache /\ [][NextLatest]_vars

\* The pixels of the journeys of a layer, journey by journey, and of the
\* ongoing journey.
LayerPixels(journeys, layer_kind) ==
    get_range_internal(journeys, None, None,
        IF layer_kind = LayerKindAll THEN None ELSE Some(layer_kind.kind)).v

OngoingPixels(ongoing, include_ongoing) ==
    IF include_ongoing /\ ongoing.some
        THEN add_journey_vector_to_journey_bitmap(EmptyBitmap, ongoing.v.track_segments)
    ELSE EmptyBitmap

\* C17: get_latest_lazy returns a lazy source over the cached blob, with a
\* bitmap of the ongoing journey only, exactly when layer_kind is Some and
\* the cache holds the layer; otherwise it returns no source and the full
\* bitmap (the layer's journeys and the ongoing journey), and then, for a
\* layer_kind that is Some, the cache holds the layer.  A layer stays cached
\* until a journey is written, so the next get_latest_lazy for it is a hit.
C17_LazyExactlyOnHit ==
    [][/\ call'.op = "get_latest_lazy" =>
            LET layer_kind == call'.layer_kind
                hit == layer_kind.some /\ layer_kind.v \in DOMAIN cache_db
                ongoing == OngoingPixels(ongoing_journey, call'.include_ongoing)
            IN  /\ ret'.ok
                /\ ret'.v.lazy_source.some <=> hit
                /\ hit => /\ ret'.v.lazy_source.v.raw_data = cache_db[layer_kind.v]
                          /\ ret'.v.bitmap = ongoing
                          /\ cache_db' = cache_db
                /\ ~hit => /\ ret'.v.lazy_source = None
                           /\ ret'.v.bitmap =
                                 IF layer_kind.some
                                     THEN BitmapMerge(LayerPixels(main_db, layer_kind.v), ongoing)
                                 ELSE ongoing
                           /\ layer_kind.some => layer_kind.v \in DOMAIN cache_db'
                           /\ ~layer_kind.some => cache_db' = cache_db
       /\ call'.op # "insert_journey" => DOMAIN cache_db \subseteq DOMAIN cache_db'
       /\ (/\ call.op = "get_latest_lazy" /\ call.layer_kind.some
           /\ call'.op = "get_latest_lazy" /\ call'.layer_kind = call.layer_kind)
            => ret'.v.lazy_source.some]_vars

\* The All layer was requested lazily twice in a row with a journey stored
\* and a recording running: the second request is served from the cache.
C17_Witness ==
    /\ call.op = "get_latest_lazy"
    /\ call.layer_kind = Some(LayerKindAll)
    /\ call.include_ongoing
    /\ ongoing_journey # None
    /\ main_db # <<>>
    /\ ret.ok
    /\ ret.v.lazy_source.some
    /\ ret.v.bitmap # EmptyBitmap

\* What a renderer holds once it was given the pair get_latest_lazy
\* returned and all the tiles of the source were loaded.
ShownLazily(r, latest) ==
    peek_latest_bitmap(ensure_all_tiles_loaded(
        replace_lazy(r, latest.lazy_source.v, latest.bitmap)))

\* C18: when get_latest_lazy returns a source over the cached blob of the
\* layer, and that blob is the serialization of the aggregation of the
\* journeys now stored, a renderer given replace_lazy(source, bitmap) holds
\* after ensure_all_tiles_loaded the bitmap get_latest returns for the same
\* layer_kind and include_ongoing.
C18_LazyVariantOfGetLatest ==
    [][(/\ call'.op = "get_latest_lazy"
        /\ ret'.ok
        /\ ret'.v.lazy_source.some
        /\ cache_db[call'.layer_kind.v]
              = serialize_journey_bitmap(LayerPixels(main_db, call'.layer_kind.v))) =>
          LET eager == get_latest(MainDb(main_db, ongoing_journey), cache_db,
                                  call'.layer_kind, call'.include_ongoing)
          IN  /\ eager.ret.ok
              /\ ShownLazily(mr, ret'.v) = eager.ret.v]_vars

\* The All layer of a raster and a polyline journey came back as a source
\* with a recording running, and the renderer ends with the pixels of the
\* three.
C18_Witness ==
    /\ call.op = "get_latest_lazy"
    /\ call.layer_kind = Some(LayerKindAll)
    /\ call.include_ongoing
    /\ ongoing_journey # None
    /\ Len(main_db) = 2
    /\ {main_db[i].data.variant : i \in 1 .. 2} = {"Bitmap", "Vector"}
    /\ ret.ok
    /\ ret.v.lazy_source.some
    /\ ShownLazily(mr, ret.v)
          = BitmapMerge(LayerPixels(main_db, LayerKindAll),
                        OngoingPixels(ongoing_journey, TRUE))
    /\ ShownLazily(mr, ret.v) # LayerPixels(main_db, LayerKindAll)
    /\ ShownLazily(mr, ret.v) # OngoingPixels(ongoing_journey, TRUE)

(***************************************************************************)
(* SpecNegative: a lazy renderer whose tiles are needed again and again.   *)
(* lookups follows every call of ensure_tile_loaded: the calls themselves  *)
(* (needed) and those that pass the loaded_tiles check with a source in    *)
(* place and so reach decompress_tile (decompressed).                      *)
(***************************************************************************)
\* ensure_tile_loaded(x, y) on r gets as far as lazy.decompress_tile(x, y).
ReachesDecompressTile(r, x, y) == <<x, y>> \notin r.loaded_tiles /\ r.lazy_source.some

RECURSIVE CountLookups(_, _, _)
\* The counts after ensure_tile_loaded ran on r for each of keys in turn.
CountLookups(r, keys, counts) ==
    IF keys = <<>> THEN counts
    ELSE LET c == Head(keys)
             before == IF c \in DOMAIN counts THEN counts[c]
                       ELSE [needed |-> 0, decompressed |-> 0]
             after == [needed |-> before.needed + 1,
                       decompressed |-> before.decompressed
                           + (IF ReachesDecompressTile(r, c[1], c[2]) THEN 1 ELSE 0)]
         IN  CountLookups(ensure_tile_loaded(r, c[1], c[2]), Tail(keys),
                          [k \in DOMAIN counts \cup {c} |-> IF k = c THEN after ELSE counts[k]])

\* The coordinates get_tile_buffer and ensure_all_tiles_loaded hand to
\* ensure_tile_loaded.
NeededByViewport(r, v, checks) ==
    LET needed == IF r.lazy_source.some
                      THEN compute_needed_bitmap_tiles(v.x, v.y, v.z, v.width, v.height, checks)
                  ELSE [panic |-> FALSE, tiles |-> {}]
    IN  IF needed.panic THEN <<>> ELSE SortedCoords(needed.tiles)

NeededByAll(r) ==
    IF r.lazy_source.some THEN SortedCoords(tile_keys(r.lazy_source.v)) ELSE <<>>

\* The cap on the calls of ensure_tile_loaded for one coordinate.
CanNeed == \A c \in DOMAIN lookups : lookups[c].needed < MaxNeeds

\* The source has the near and the far tile; the tile at the origin, which
\* the wide viewport needs too, is absent from it.
NegativeSource == [c \in {NearTile, FarTile} |-> {NBits}]
NegativeOngoing == [c \in {NearTile} |-> {1}]
NegativeViewports ==
    {Viewport(I64(-1), 0, 9, 1, 1, 9), Viewport(I64(-1), 0, 9, 2, 1, 9),
     Viewport(I64(0), 0, 9, 1, 1, 9), Viewport(I64(0), 0, 9, 1, 1, 12)}

InitNegative ==
    LET raw == serialize_journey_bitmap(NegativeSource)
    IN  /\ mr = replace_lazy(new(EmptyBitmap), from_serialized_bitmap(raw).v, NegativeOngoing)
        /\ call = [op |-> "replace_lazy", raw |-> raw, ongoing |-> NegativeOngoing]
        /\ ret = Unit
        /\ overflow_checks \in BOOLEAN
        /\ ref = new(EmptyBitmap)
        /\ ref_ret = Unit
        /\ source_bitmap = EmptyBitmap
        /\ frames = 0
        /\ lookups = NoLookups
        /\ main_db = <<>>
        /\ cache_db = [k \in {} |-> <<>>]
        /\ ongoing_journey = None
        /\ NoRequests

NegativeReplaceLazy ==
    LET raw == serialize_journey_bitmap(NegativeSource)
    IN  /\ CanBump(mr)
        /\ mr' = replace_lazy(mr, from_serialized_bitmap(raw).v, NegativeOngoing)
        /\ lookups' = NoLookups
        /\ call' = [op |-> "replace_lazy", raw |-> raw, ongoing |-> NegativeOngoing]
        /\ ret' = Unit
        /\ UNCHANGED <<overflow_checks, refVars, dbVars>>

NegativeReplace ==
    /\ CanBump(mr)
    /\ mr' = replace(mr, NegativeOngoing)
    /\ lookups' = NoLookups
    /\ call' = [op |-> "replace", bitmap |-> NegativeOngoing]
    /\ ret' = Unit
    /\ UNCHANGED <<overflow_checks, refVars, dbVars>>

NegativeDropLazySource ==
    /\ mr' = drop_lazy_source(mr)
    /\ lookups' = NoLookups
    /\ call' = [op |-> "drop_lazy_source"]
    /\ ret' = Unit
    /\ UNCHANGED <<overflow_checks, refVars, dbVars>>

NegativeUpdate ==
    \E f \in Mutators :
        /\ CanBump(mr)
        /\ mr' = update(mr, f)
        /\ call' = [op |-> "update", f |-> f]
        /\ ret' = Unit
        /\ UNCHANGED <<overflow_checks, refVars, dbVars, lookups>>

NegativeGetTileBuffer ==
    \E v \in NegativeViewports :
        LET got == get_tile_buffer(mr, v.x, v.y, v.z, v.width, v.height,
                                   v.buffer_size_power, overflow_checks)
        IN  /\ CanNeed
            /\ mr' = got.r
            /\ lookups' = CountLookups(mr, NeededByViewport(mr, v, overflow_checks), lookups)
            /\ call' = [op |-> "get_tile_buffer", v |-> v]
            /\ ret' = got.ret
            /\ UNCHANGED <<overflow_checks, refVars, dbVars>>

NegativeEnsureAllTilesLoaded ==
    /\ CanNeed
    /\ mr' = ensure_all_tiles_loaded(mr)
    /\ lookups' = CountLookups(mr, NeededByAll(mr), lookups)
    /\ call' = [op |-> "ensure_all_tiles_loaded"]
    /\ ret' = Unit
    /\ UNCHANGED <<overflow_checks, refVars, dbVars>>

NegativeGetCurrentArea ==
    /\ CanNeed
    /\ mr' = get_current_area(mr).r
    /\ lookups' = CountLookups(mr, NeededByAll(mr), lookups)
    /\ call' = [op |-> "get_current_area"]
    /\ ret' = get_current_area(mr).ret
    /\ UNCHANGED <<overflow_checks, refVars, dbVars>>

NextNegative ==
    \/ NegativeReplaceLazy
    \/ NegativeReplace
    \/ NegativeDropLazySource
    \/ NegativeUpdate
    \/ NegativeGetTileBuffer
    \/ NegativeEnsureAllTilesLoaded
    \/ NegativeGetCurrentArea

SpecNegative == InitNegative /\ [][NextNegative]_vars

\* C19: since the last replace_lazy, replace or drop_lazy_source, however
\* often get_tile_buffer, ensure_all_tiles_loaded and get_current_area
\* needed a coordinate, the lazy source was asked for it once: at the first
\* need, whether the source has the tile or not, and the coordinate is in
\* loaded_tiles from then on.
C19_NegativeCache ==
    \A c \in DOMAIN lookups :
        /\ lookups[c].decompressed <= 1
        /\ lookups[c].needed >= 1
        /\ c \in mr.loaded_tiles
        /\ mr.lazy_source.some
        /\ lookups[c].decompressed = 1

\* The tile at the origin, absent from the source, was needed by two
\* get_tile_buffer calls, and the near tile, present in it, by more calls
\* than one: each went to the source once.
C19_Witness ==
    /\ call.op = "get_tile_buffer"
    /\ OriginTile \in DOMAIN lookups
    /\ NearTile \in DOMAIN lookups
    /\ OriginTile \notin tile_keys(mr.lazy_source.v)
    /\ lookups[OriginTile] = [needed |-> MaxNeeds, decompressed |-> 1]
    /\ lookups[NearTile] = [needed |-> MaxNeeds, decompressed |-> 1]
    /\ OriginTile \notin DOMAIN mr.journey_bitmap

(***************************************************************************)
(* SpecVector: polylines of up to MaxSegments segments of up to MaxPoints  *)
(* points are drawn; ret keeps the add_line calls made beside the bitmap.  *)
(***************************************************************************)
SeqsUpTo(S, n) == UNION {[1 .. k -> S] : k \in 0 .. n}

\* Two points of one row of pixels, in neighbouring tiles.
VectorPoints == {Point(0, 0), Point(NBits, 0)}

JourneyVectors ==
    {[track_segments |-> segments] :
        segments \in SeqsUpTo({Segment(points) : points \in SeqsUpTo(VectorPoints, MaxPoints)},
                              MaxSegments)}

\* The bitmap the vector is drawn on has a pixel already.
VectorBitmap == [c \in {OriginTile} |-> {NBits}]

\* A call with its arguments, not yet returned.
InitVector ==
    /\ \E journey_vector \in JourneyVectors :
          call = [op |-> "add_journey_vector_to_journey_bitmap",
                  journey_bitmap |-> VectorBitmap, journey_vector |-> journey_vector]
    /\ ret = None
    /\ main_db = <<>>
    /\ cache_db = [k \in {} |-> <<>>]
    /\ ongoing_journey = None
    /\ NoRequests
    /\ mr = new(EmptyBitmap)
    /\ overflow_checks = FALSE
    /\ ref = new(EmptyBitmap)
    /\ ref_ret = Unit
    /\ source_bitmap = EmptyBitmap
    /\ frames = 0
    /\ lookups = NoLookups

AddJourneyVector ==
    /\ ret = None
    /\ ret' = Some([journey_bitmap |->
                        add_journey_vector_to_journey_bitmap(call.journey_bitmap,
                            call.journey_vector.track_segments),
                    add_line |-> add_line_calls(call.journey_vector.track_segments)])
    /\ UNCHANGED <<call, mr, overflow_checks, refVars, dbVars, lookups>>

NextVector == AddJourneyVector

SpecVector == InitVector /\ [][NextVector]_vars

RECURSIVE PointsBefore(_, _)
\* The number of points in the segments before the s-th.
PointsBefore(track_segments, s) ==
    IF s = 1 THEN 0
    ELSE PointsBefore(track_segments, s - 1) + Len(track_segments[s - 1].track_points)

\* C20: the add_line calls of a JourneyVector are, segment after segment,
\* one call per point of the segment: for its first point the zero-length
\* line from the point to itself, for its i-th point the line from point
\* i - 1 to point i.  There are no other calls: none joins two segments and
\* an empty segment has none.  The bitmap is the result of these calls.
C20_PolylineRasterization ==
    ret.some =>
        LET segments == call.journey_vector.track_segments
            lines == ret.v.add_line
        IN  /\ Len(lines) = PointsBefore(segments, Len(segments) + 1)
            /\ \A s \in 1 .. Len(segments) :
                  LET p == segments[s].track_points
                      at == PointsBefore(segments, s)
                  IN  \A i \in 1 .. Len(p) :
                          lines[at + i] = IF i = 1 THEN Line(p[1], p[1])
                                          ELSE Line(p[i - 1], p[i])
            /\ ret.v.journey_bitmap = ApplyLines(call.journey_bitmap, lines)

\* A segment of one point, an empty segment and a segment of two points:
\* three calls, none from the first segment's point to the last segment's,
\* and the pixels between the two points are lit beside the one that was.
C20_Witness ==
    /\ ret.some
    /\ call.journey_vector.track_segments
          = <<Segment(<<Point(NBits, 0)>>), Segment(<<>>),
              Segment(<<Point(0, 0), Point(NBits, 0)>>)>>
    /\ ret.v.add_line = <<Line(Point(NBits, 0), Point(NBits, 0)),
                          Line(Point(0, 0), Point(0, 0)),
                          Line(Point(0, 0), Point(NBits, 0))>>
    /\ ret.v.journey_bitmap = [c \in {<<0, 0>>, <<1, 0>>} |-> IF c = <<0, 0>> THEN Bits ELSE {1}]

(***************************************************************************)
(* SpecResolver: compute_needed_bitmap_tiles on viewports of every zoom    *)
(* side, with x in the middle and at the far ends of i64, in either build. *)
(***************************************************************************)
\* 2^62 - 1
I64_BIG_PRED == [top |-> 3, mid |-> Limb - 1, low |-> Limb - 1]

ResolverViewports ==
    [x : {I64(-2), I64(-1), I64(0), I64(511), I64(512), I64_BIG_PRED, I64_BIG, I64_MAX},
     y : {-1, 0, 255, 511, 512}, z : {7, 8, 9, 10, 25}, width : {1, 2}, height : {1, 2},
     buffer_size_power : {9}]

\* A call with its arguments, not yet returned.
InitResolver ==
    /\ \E v \in ResolverViewports : call = [op |-> "compute_needed_bitmap_tiles", v |-> v]
    /\ overflow_checks \in BOOLEAN
    /\ ret = None
    /\ main_db = <<>>
    /\ cache_db = [k \in {} |-> <<>>]
    /\ ongoing_journey = None
    /\ NoRequests
    /\ mr = new(EmptyBitmap)
    /\ ref = new(EmptyBitmap)
    /\ ref_ret = Unit
    /\ source_bitmap = EmptyBitmap
    /\ frames = 0
    /\ lookups = NoLookups

ComputeNeededBitmapTiles ==
    /\ ret = None
    /\ ret' = Some(compute_needed_bitmap_tiles(call.v.x, call.v.y, call.v.z, call.v.width,
                                               call.v.height, overflow_checks))
    /\ UNCHANGED <<call, mr, overflow_checks, refVars, dbVars, lookups>>

NextResolver == ComputeNeededBitmapTiles

SpecResolver == InitResolver /\ [][NextResolver]_vars

\* The rule on the integers, its columns taken modulo 512: a column of the
\* result depends on the low bits of x only, so x.low stands for x.
RuleTiles(v) ==
    LET zoom_diff == v.z - TILE_ZOOM
        rows(S) == {by \in S : by >= 0 /\ by < 512}
    IN  UNION {IF zoom_diff >= 0
                   THEN {<<((v.x.low + dx) \div Pow2(zoom_diff)) % 512, by>> :
                            by \in rows({(v.y + dy) \div Pow2(zoom_diff)})}
               ELSE LET scale == Pow2(-zoom_diff)
                    IN  {<<(((v.x.low + dx) % 512) * scale + j) % 512, by>> :
                            j \in 0 .. scale - 1,
                            by \in rows({(v.y + dy) * scale + k : k \in 0 .. scale - 1})} :
              dx \in 0 .. v.width - 1, dy \in 0 .. v.height - 1}

\* C21 as stated: for every viewport compute_needed_bitmap_tiles returns,
\* and what it returns is exactly the set of the rule: one tile per view
\* tile for z >= 9, a block of 2^(9-z) by 2^(9-z) tiles for z < 9, columns
\* wrapped modulo 512 and rows outside [0, 512) dropped, every coordinate
\* within [0, 512) x [0, 512).
C21_ResolverRule ==
    ret.some =>
        /\ ~ret.v.panic
        /\ ret.v.tiles = RuleTiles(call.v)
        /\ \A c \in ret.v.tiles : c[1] \in 0 .. 511 /\ c[2] \in 0 .. 511

(***************************************************************************)
(* SpecWorking: the working bitmap of a renderer that is replaced, given a *)
(* source, updated by closures that report the tiles they change, and      *)
(* read.  Beside mr, source_bitmap is the bitmap the source was serialized *)
(* from, and ref an eager renderer that was given the ongoing bitmap (or   *)
(* the bitmap of replace) and every update since: what the working bitmap  *)
(* holds apart from the source.                                            *)
(***************************************************************************)
WorkingSources == {[c \in {NearTile, FarTile} |-> {NBits}], [c \in {FarTile} |-> {NBits}]}
WorkingOngoings == {EmptyBitmap, [c \in {NearTile} |-> {1}]}
WorkingMutators == {f \in Mutators : f.reports}
WorkingViewports == {Viewport(I64(-1), 0, 9, 1, 1, 9), Viewport(I64(0), 0, 9, 1, 1, 9)}

InitWorking ==
    /\ mr = new(EmptyBitmap)
    /\ call = [op |-> "new", bitmap |-> EmptyBitmap]
    /\ ret = Unit
    /\ overflow_checks \in BOOLEAN
    /\ ref = new(EmptyBitmap)
    /\ ref_ret = Unit
    /\ source_bitmap = EmptyBitmap
    /\ frames = 0
    /\ lookups = NoLookups
    /\ main_db = <<>>
    /\ cache_db = [k \in {} |-> <<>>]
    /\ ongoing_journey = None
    /\ NoRequests

WorkingReplaceLazy ==
    \E b \in WorkingSources, ongoing \in WorkingOngoings :
        LET raw == serialize_journey_bitmap(b)
        IN  /\ CanBump(mr)
            /\ mr' = replace_lazy(mr, from_serialized_bitmap(raw).v, ongoing)
            /\ ref' = new(ongoing)
            /\ source_bitmap' = b
            /\ call' = [op |-> "replace_lazy", raw |-> raw, ongoing |-> ongoing]
            /\ ret' = Unit
            /\ UNCHANGED <<overflow_checks, ref_ret, frames, dbVars, lookups>>

WorkingReplace ==
    \E b \in WorkingOngoings :
        /\ CanBump(mr)
        /\ mr' = replace(mr, b)
        /\ ref' = new(b)
        /\ source_bitmap' = EmptyBitmap
        /\ call' = [op |-> "replace", bitmap |-> b]
        /\ ret' = Unit
        /\ UNCHANGED <<overflow_checks, ref_ret, frames, dbVars, lookups>>

WorkingUpdate ==
    \E f \in WorkingMutators :
        /\ CanBump(mr)
        /\ mr' = update(mr, f)
        /\ ref' = update(ref, f)
        /\ call' = [op |-> "update", f |-> f]
        /\ ret' = Unit
        /\ UNCHANGED <<overflow_checks, ref_ret, source_bitmap, frames, dbVars, lookups>>

WorkingDropLazySource ==
    /\ mr' = drop_lazy_source(mr)
    /\ call' = [op |-> "drop_lazy_source"]
    /\ ret' = Unit
    /\ UNCHANGED <<overflow_checks, refVars, dbVars, lookups>>

WorkingGetTileBuffer ==
    \E v \in WorkingViewports :
        LET got == get_tile_buffer(mr, v.x, v.y, v.z, v.width, v.height,
                                   v.buffer_size_power, overflow_checks)
        IN  /\ mr' = got.r
            /\ call' = [op |-> "get_tile_buffer", v |-> v]
            /\ ret' = got.ret
            /\ UNCHANGED <<overflow_checks, refVars, dbVars, lookups>>

WorkingEnsureAllTilesLoaded ==
    /\ mr' = ensure_all_tiles_loaded(mr)
    /\ call' = [op |-> "ensure_all_tiles_loaded"]
    /\ ret' = Unit
    /\ UNCHANGED <<overflow_checks, refVars, dbVars, lookups>>

WorkingGetCurrentArea ==
    /\ mr' = get_current_area(mr).r
    /\ call' = [op |-> "get_current_area"]
    /\ ret' = get_current_area(mr).ret
    /\ UNCHANGED <<overflow_checks, refVars, dbVars, lookups>>

NextWorking ==
    \/ WorkingReplaceLazy
    \/ WorkingReplace
    \/ WorkingUpdate
    \/ WorkingDropLazySource
    \/ WorkingGetTileBuffer
    \/ WorkingEnsureAllTilesLoaded
    \/ WorkingGetCurrentArea

SpecWorking == InitWorking /\ [][NextWorking]_vars

\* The tile of the working bitmap at c, and whether the bitmap has one.
WorkingTile(r, c) == TileOr(r.journey_bitmap, c)

\* C22: while the renderer has a source, the tile of the working bitmap at
\* any coordinate is the OR of the ongoing bitmap's tile with the bits the
\* updates added since replace_lazy, and with the source's tile exactly
\* when the coordinate has been loaded; and an update followed by the load
\* of a tile leaves the tile as the load followed by the update does.
C22_LazyLoadingInvisible ==
    mr.lazy_source.some =>
        \A c \in {NearTile, OriginTile, FarTile} :
            /\ WorkingTile(mr, c)
                  = WorkingTile(ref, c)
                       \cup (IF c \in mr.loaded_tiles THEN TileOr(source_bitmap, c) ELSE {})
            /\ c \in DOMAIN mr.journey_bitmap
                  <=> \/ c \in DOMAIN ref.journey_bitmap
                      \/ c \in mr.loaded_tiles /\ c \in DOMAIN source_bitmap
            /\ \A f \in Mutators :
                  WorkingTile(ensure_tile_loaded(update(mr, f), c[1], c[2]), c)
                      = WorkingTile(update(ensure_tile_loaded(mr, c[1], c[2]), f), c)

\* The near tile has the pixel an update added before the tile was loaded
\* and the pixel of the source; the far tile is in the source, was not
\* loaded and is not in the working bitmap.
C22_Witness ==
    /\ call.op = "get_tile_buffer"
    /\ mr.lazy_source.some
    /\ NearTile \in mr.loaded_tiles
    /\ WorkingTile(mr, NearTile) = {1, NBits}
    /\ WorkingTile(ref, NearTile) = {1}
    /\ ref.version # VersionZero
    /\ source_bitmap = [c \in {NearTile, FarTile} |-> {NBits}]
    /\ FarTile \notin mr.loaded_tiles
    /\ FarTile \notin DOMAIN mr.journey_bitmap

\* The number of pixels of a bitmap, tile by tile.
PixelCount(journey_bitmap) ==
    SumOver([c \in DOMAIN journey_bitmap |-> Cardinality(journey_bitmap[c])],
            DOMAIN journey_bitmap)

\* C23: whenever current_area is set it is the area of the working bitmap
\* as it is now, and every entry of tile_area_cache is the area of the tile
\* of the working bitmap it is keyed by, whatever the order of
\* get_current_area, get_tile_buffer, ensure_all_tiles_loaded, reporting
\* updates, replace, replace_lazy and drop_lazy_source before.
C23_AreaNeverStale ==
    /\ mr.current_area.some => mr.current_area.v = PixelCount(mr.journey_bitmap)
    /\ \A c \in DOMAIN mr.tile_area_cache :
          /\ c \in DOMAIN mr.journey_bitmap
          /\ mr.tile_area_cache[c] = Cardinality(mr.journey_bitmap[c])

\* The area of a lazy renderer was asked for after an update: it counts the
\* pixel of the update and the two of the source, with both tiles'
\* areas memoized.
C23_Witness ==
    /\ call.op = "get_current_area"
    /\ mr.lazy_source.some
    /\ ref.version # VersionZero
    /\ WorkingTile(mr, NearTile) = {1, NBits}
    /\ mr.current_area = Some(3)
    /\ ret = 3
    /\ DOMAIN mr.tile_area_cache = {NearTile, FarTile}

\* C24: whatever get_latest and get_latest_lazy calls were made, with or
\* without the ongoing journey, every blob of the layer cache decodes to
\* the aggregation of the finalized journeys of its layer and nothing else:
\* the pixels of the ongoing journey are in what the caller got only.
C24_CacheHoldsFinalizedOnly ==
    \A layer_kind \in DOMAIN cache_db :
        /\ deserialize_journey_bitmap(cache_db[layer_kind]).ok
        /\ deserialize_journey_bitmap(cache_db[layer_kind]).v
              = LayerPixels(main_db, layer_kind)

\* get_latest returned the All layer with the ongoing journey drawn on the
\* near tile, and the blob it cached for the layer has no near tile.
C24_Witness ==
    /\ call.op = "get_latest"
    /\ call.layer_kind = Some(LayerKindAll)
    /\ call.include_ongoing
    /\ ongoing_journey # None
    /\ main_db # <<>>
    /\ ret.ok
    /\ NearTile \in DOMAIN ret.v
    /\ LayerKindAll \in DOMAIN cache_db
    /\ NearTile \notin DOMAIN deserialize_journey_bitmap(cache_db[LayerKindAll]).v
    /\ deserialize_journey_bitmap(cache_db[LayerKindAll]).v # EmptyBitmap

====
